---------------------------- MODULE Spec2Model ----------------------------
(***************************************************************************)
(* Model of the linked-object persistence engine of persistent-random-data *)
(* (TtPersistenceService and its database / store / retrieve / delete      *)
(* services).  Every public call of the service is one action; the         *)
(* storage engine (IndexedDB) is the variable idb, the durable sidecar      *)
(* (localStorage) is the variable local.                                    *)
(*                                                                         *)
(* JavaScript values are tagged records  [k, s, o, a] :                    *)
(*   k = "str"   s = the string, as a sequence of chunks; a chunk is       *)
(*               either a UUID-shaped substring (a member of UuidChunks)   *)
(*               or text holding no UUID-shaped substring                  *)
(*   k = "obj"   o = the object, a function from property names to values  *)
(*   k = "arr"   a = the array, a sequence of values                       *)
(*   k = "null" / k = "undef"                                              *)
(* A JavaScript Map is a sequence of <<key, value>> pairs in insertion     *)
(* order.  A dot-notated key path is the sequence of its segments, and an  *)
(* index name is the sequence of the key paths it joins with ", ".         *)
(***************************************************************************)
EXTENDS Integers, Sequences, FiniteSets, TLC

VARIABLES
  settings,     \* databaseService.settings$ : the in-memory PersistenceSettings
  optionsMap,   \* databaseService.optionsMap$
  linkMap,      \* databaseService.linkMap$
  triggerMap,   \* databaseService.triggerMap$
  storageMap,   \* databaseService.storageMap$
  counterMap,   \* databaseService.counterMap$
  local,        \* window.localStorage : the two sidecar entries, each <<>> when
                \* not set and <<value>> when set
  idb,          \* the IndexedDB database 'PersistentRandomData'
  handle,       \* databaseService.indexedDb$ : TRUE when a connection is held
  last,         \* the call made last, its inputs and what it answered
  calls         \* number of calls made so far

vars == <<settings, optionsMap, linkMap, triggerMap, storageMap, counterMap,
          local, idb, handle, last, calls>>

-----------------------------------------------------------------------------
(* Bounds of the model *)

MaxCalls == 3

-----------------------------------------------------------------------------
(* JavaScript values *)

E == <<>>

Str(c) == [k |-> "str", s |-> c, o |-> E, a |-> E]
Obj(f) == [k |-> "obj", s |-> E, o |-> f, a |-> E]
Arr(q) == [k |-> "arr", s |-> E, o |-> E, a |-> q]
Null == [k |-> "null", s |-> E, o |-> E, a |-> E]
Undef == [k |-> "undef", s |-> E, o |-> E, a |-> E]

\* typeof v === 'object'
TypeofObject(v) == v.k \in {"obj", "arr", "null"}
IsArray(v) == v.k = "arr"
\* !!v
Truthy(v) == v.k \in {"obj", "arr"} \/ (v.k = "str" /\ v.s # E)
\* v.hasOwnProperty(p), for v an object
HasOwn(v, p) == v.k = "obj" /\ p \in DOMAIN v.o
\* v[p], for v an object
Prop(v, p) == IF HasOwn(v, p) THEN v.o[p] ELSE Undef
\* v[p] = w
SetProp(v, p, w) == Obj([q \in DOMAIN v.o \cup {p} |-> IF q = p THEN w ELSE v.o[q]])
\* delete v[p]
DelProp(v, p) == Obj([q \in DOMAIN v.o \ {p} |-> v.o[q]])
\* { ...v, ...w }
Spread(v, w) == Obj([q \in DOMAIN v.o \cup DOMAIN w.o |->
                       IF q \in DOMAIN w.o THEN w.o[q] ELSE v.o[q]])

asArray(v) == IF IsArray(v) THEN v.a ELSE <<v>>

idKey == "__pkey__"
storeKey == "__store__"

-----------------------------------------------------------------------------
(* JavaScript Maps, in insertion order *)

MapHas(m, key) == \E i \in 1..Len(m) : m[i][1] = key
MapGet(m, key) == m[CHOOSE i \in 1..Len(m) : m[i][1] = key][2]
MapSet(m, key, val) ==
  IF MapHas(m, key)
  THEN [i \in 1..Len(m) |-> IF m[i][1] = key THEN <<key, val>> ELSE m[i]]
  ELSE Append(m, <<key, val>>)
MapDelete(m, key) == SelectSeq(m, LAMBDA e : e[1] # key)
MapKeys(m) == [i \in 1..Len(m) |-> m[i][1]]
MapKeySet(m) == {m[i][1] : i \in 1..Len(m)}
\* m.get(key) ?? dflt
MapGetOr(m, key, dflt) == IF MapHas(m, key) THEN MapGet(m, key) ELSE dflt

SeqToSet(q) == {q[i] : i \in 1..Len(q)}

RECURSIVE Flatten(_)
Flatten(qq) == IF qq = E THEN E ELSE Head(qq) \o Flatten(Tail(qq))

-----------------------------------------------------------------------------
(* Strings and the UUID regular expression *)

U1 == "11111111-1111-1111-1111-111111111111"
U2 == "22222222-2222-2222-2222-222222222222"
\* the chunks that uuidRegExp matches
UuidChunks == {U1, U2}

\* String(id).match(uuidRegExp) ?? [] : the regular expression has no g flag,
\* so the match array holds the first match alone
uuidMatches(id) ==
  IF id.k = "str" /\ \E i \in 1..Len(id.s) : id.s[i] \in UuidChunks
  THEN <<Str(<<id.s[CHOOSE i \in 1..Len(id.s) :
                 /\ id.s[i] \in UuidChunks
                 /\ \A j \in 1..(i - 1) : id.s[j] \notin UuidChunks]>>)>>
  ELSE E

\* the mutant of extractUuid that takes the last UUID of the string
extractUuidLast(id) ==
  IF id.k = "str" /\ \E i \in 1..Len(id.s) : id.s[i] \in UuidChunks
  THEN Str(<<id.s[CHOOSE i \in 1..Len(id.s) :
                 /\ id.s[i] \in UuidChunks
                 /\ \A j \in (i + 1)..Len(id.s) : id.s[j] \notin UuidChunks]>>)
  ELSE id

extractUuid(id) == IF uuidMatches(id) # E THEN uuidMatches(id)[1] ELSE id


-----------------------------------------------------------------------------
(* TtPersistenceOptions.  The options of a call hold storeName, primaryKey, *)
(* uniqueKeys (a set), cascade ("none" when not given), storeContent        *)
(* ("true", "false" or "undef"), triggers (a sequence) and linkedKeys (a    *)
(* Map from property to options, E when not given).  An entry of the       *)
(* OptionsMap holds the same fields, but of linkedKeys only what it is:     *)
(* "undefined", "Map", or "object" for what JSON makes of a Map.  Nothing   *)
(* reads the linkedKeys of an entry but pruneOptionsMap, and the links are  *)
(* in the LinkMap.                                                          *)

Options(store, pk, cascade, content, triggers, linked) ==
  [storeName |-> store, primaryKey |-> pk, uniqueKeys |-> {}, cascade |-> cascade,
   storeContent |-> content, triggers |-> triggers, linkedKeys |-> linked]

\* optionsMap.set(options.storeName, options)
optionsEntry(options) ==
  [options EXCEPT !.linkedKeys = IF options.linkedKeys = E THEN "undefined" ELSE "Map"]

\* const cloned = { ...persistenceOptions }; delete cloned.linkedKeys;
cleanOptions(entry) == [entry EXCEPT !.linkedKeys = "undefined"]

\* JSON.parse(JSON.stringify(settings)) : a Map becomes the object {}
jsonSettings(s) ==
  [s EXCEPT !.options = [i \in 1..Len(s.options) |->
     <<s.options[i][1],
       [s.options[i][2] EXCEPT !.linkedKeys = IF @ = "Map" THEN "object" ELSE @]>>]]

\* a trigger rule is [property |-> key path, primaryKey |-> BOOLEAN]
convertIndexTrigger(storeName, trigger) ==
  LET keyPath == [i \in 1..Len(trigger.rules) |->
                    IF trigger.rules[i].primaryKey
                    THEN Append(trigger.rules[i].property, idKey)
                    ELSE trigger.rules[i].property]
  IN [name |-> trigger.name, rules |-> trigger.rules, storeName |-> storeName,
      index |-> keyPath, keyPath |-> keyPath]

RECURSIVE createTriggerMapFrom(_, _, _)
createTriggerMapFrom(tmap, storeName, triggers) ==
  IF triggers = E THEN tmap
  ELSE createTriggerMapFrom(
         MapSet(tmap, Head(triggers).name, convertIndexTrigger(storeName, Head(triggers))),
         storeName, Tail(triggers))

createTriggerMap(stm, storeName, triggers) ==
  createTriggerMapFrom(MapGetOr(stm, storeName, E), storeName, triggers)

updateTriggerMap(stm, options) ==
  MapSet(stm, options.storeName, createTriggerMap(stm, options.storeName, options.triggers))

convertTriggerMapToSettingsTriggers(stm) ==
  Flatten([i \in 1..Len(stm) |-> [j \in 1..Len(stm[i][2]) |-> stm[i][2][j][2]]])

RECURSIVE convertSettingsTriggersToTriggerMap(_)
convertSettingsTriggersToTriggerMap(triggers) ==
  IF triggers = E THEN E
  ELSE LET rest == convertSettingsTriggersToTriggerMap(SubSeq(triggers, 1, Len(triggers) - 1))
           t == triggers[Len(triggers)]
       IN MapSet(rest, t.storeName, MapSet(MapGetOr(rest, t.storeName, E), t.name, t))

\* the LinkArray of the settings and the LinkMap hold the same pairs in the
\* same order
convertSettingsLinksToLinkMap(s) == s.links
convertLinkMapToSettingsLink(lm) == lm

\* The registry as one record, for the operators that update several parts
Registry == [settings |-> settings, optionsMap |-> optionsMap, linkMap |-> linkMap,
             triggerMap |-> triggerMap, storageMap |-> storageMap, local |-> local]

\* settings.<field> = value and settings.mutations.<field> = value
withLinks(R, links) == [R EXCEPT !.settings.links = links]
withOptions(R, options) == [R EXCEPT !.settings.options = options]
withTriggers(R, triggers) == [R EXCEPT !.settings.triggers = triggers]
\* a variant that leaves the version as it is
withVersionKept(R, version) == R
withVersion(R, version) == [R EXCEPT !.settings.version = version]
withUpdate(R, update) == [R EXCEPT !.settings.mutations.update = update]
withRemove(R, remove) == [R EXCEPT !.settings.mutations.remove = remove]
withIndices(R, indices) == [R EXCEPT !.settings.mutations.indices = indices]
withMaps(R, om, lm) == [R EXCEPT !.optionsMap = om, !.linkMap = lm]

RECURSIVE flattenPersistenceLinkOptions(_, _)
RECURSIVE flattenLinkedKeys(_, _, _)
flattenPersistenceLinkOptions(R, options) ==
  LET R1 == [R EXCEPT !.optionsMap =
                        IF MapHas(@, options.storeName) THEN @
                        ELSE MapSet(@, options.storeName, optionsEntry(options)),
                      !.triggerMap = updateTriggerMap(@, options)]
  IN flattenLinkedKeys(R1, options, 1)
flattenLinkedKeys(R, options, i) ==
  IF i > Len(options.linkedKeys) THEN R
  ELSE LET property == options.linkedKeys[i][1]
           linkOptions == options.linkedKeys[i][2]
           propertyMap == MapGetOr(R.linkMap, options.storeName, E)
           R1 == [R EXCEPT !.linkMap = MapSet(@, options.storeName,
                                         MapSet(propertyMap, property, linkOptions.storeName))]
       IN flattenLinkedKeys(flattenPersistenceLinkOptions(R1, linkOptions), options, i + 1)

\* the end of updateSettingsLinks, on the registry after the flattening
linksToSettings(R) == withLinks(R, convertLinkMapToSettingsLink(R.linkMap))

updateSettingsLinks(R, options) ==
  linksToSettings(flattenPersistenceLinkOptions(
    [R EXCEPT !.linkMap = convertSettingsLinksToLinkMap(R.settings),
              !.triggerMap = convertSettingsTriggersToTriggerMap(R.settings.triggers),
              !.optionsMap = R.settings.options],
    options))

\* [...new Set([...list]).add(name).keys()]
SetAdd(list, name) == IF name \in SeqToSet(list) THEN list ELSE Append(list, name)

\* the setter of settings: the stream and the sidecar entry
writeSettings(R) == [R EXCEPT !.local.settings = <<jsonSettings(R.settings)>>]
\* a variant of the setter of storageMap that leaves the sidecar as it is
writeStorageMapInMemory(R) == R
\* the setter of storageMap
writeStorageMap(R) == [R EXCEPT !.local.storage = <<R.storageMap>>]


\* updatePersistenceSettings after updateSettingsLinks
optionsToSettings(R, options) ==
  LET om == MapSet(R.optionsMap, options.storeName, optionsEntry(options))
      cleanedUpMap == [i \in 1..Len(om) |-> <<om[i][1], cleanOptions(om[i][2])>>]
  IN writeSettings(
       withTriggers(
         withVersion(
           withUpdate(
             withOptions(withMaps(R, om, R.linkMap), cleanedUpMap),
             SetAdd(R.settings.mutations.update, options.storeName)),
           R.settings.version + 1),
         convertTriggerMapToSettingsTriggers(R.triggerMap)))

updatePersistenceSettings(R, options) ==
  optionsToSettings(updateSettingsLinks(R, options), options)

-----------------------------------------------------------------------------
(* TtPersistenceStoreService: the decomposition of content into the queue   *)

\* the filter of parseContentForLinking: the first item of each raw
\* primary-key value is kept
RECURSIVE dedupeByKey(_, _, _)
dedupeByKey(items, primaryKey, idSet) ==
  IF items = E THEN E
  ELSE LET checkId == Prop(Head(items), primaryKey)
       IN IF checkId \in idSet
          THEN dedupeByKey(Tail(items), primaryKey, idSet)
          ELSE <<Head(items)>> \o dedupeByKey(Tail(items), primaryKey, idSet \cup {checkId})

RECURSIVE parseContentForLinking(_, _, _, _)
RECURSIVE extractLinkedContent(_, _, _, _, _)
RECURSIVE parseLinkedItems(_, _, _, _)
RECURSIVE extractAll(_, _, _, _)

parseContentForLinking(R, storeName, contents, linkedItems) ==
  LET current == MapGetOr(linkedItems, storeName, E)
      options == MapGet(R.optionsMap, storeName)
      parsedQueue == IF ~MapHas(R.linkMap, storeName) THEN linkedItems
                     ELSE extractAll(R, contents, MapGet(R.linkMap, storeName), linkedItems)
      concatenated == dedupeByKey(current \o contents, options.primaryKey, {})
  IN MapSet(parsedQueue, storeName, concatenated)

\* contents.map((cloneMe) => this.extractLinkedContent(cloneMe, linkedToMap, linkedItems))
extractAll(R, contents, linkedToMap, linkedItems) ==
  IF contents = E THEN linkedItems
  ELSE extractAll(R, Tail(contents), linkedToMap,
                  extractLinkedContent(R, Head(contents), linkedToMap, 1, linkedItems))

extractLinkedContent(R, content, linkedToMap, i, linkedItems) ==
  IF i > Len(linkedToMap) THEN linkedItems
  ELSE LET property == linkedToMap[i][1]
           options == MapGet(R.optionsMap, linkedToMap[i][2])
       IN IF ~HasOwn(content, property) \/ ~TypeofObject(content.o[property])
          THEN extractLinkedContent(R, content, linkedToMap, i + 1, linkedItems)
          ELSE extractLinkedContent(R, content, linkedToMap, i + 1,
                 parseLinkedItems(R, options, asArray(content.o[property]), linkedItems))

\* parseContent of extractLinkedContent, over the nested item or items
parseLinkedItems(R, options, items, linkedItems) ==
  IF items = E THEN linkedItems
  ELSE LET item == Head(items)
           parsed == IF ~HasOwn(item, options.primaryKey)
                        \/ item.o[options.primaryKey].k # "str"
                     THEN linkedItems
                     ELSE parseContentForLinking(R, options.storeName, <<item>>, linkedItems)
       IN parseLinkedItems(R, options, Tail(items), parsed)

createQueueMap(R, options, content) ==
  parseContentForLinking(R, options.storeName, content, E)

addIdKeyToContent(content, primaryKey) ==
  [i \in 1..Len(content) |->
     SetProp(content[i], idKey, extractUuid(Prop(content[i], primaryKey)))]

\* the mutant of linkTags that leaves the collection tag out
linkTagsNoStore(storeName, id) == Obj(idKey :> id)

\* the mutant of linkTags that leaves out the identity
linkTagsNoKey(storeName, id) == Obj(storeKey :> Str(<<storeName>>))

\* the tags that addRelationsToContent gives an embedded copy
linkTags(storeName, id) == Obj((storeKey :> Str(<<storeName>>)) @@ (idKey :> id))

RECURSIVE addRelationsToItem(_, _, _, _)
addRelationsToItem(R, item, linksToMap, i) ==
  IF i > Len(linksToMap) THEN item
  ELSE LET property == linksToMap[i][1]
           linkStore == linksToMap[i][2]
       IN IF ~HasOwn(item, property) \/ ~TypeofObject(item.o[property])
             \/ ~MapHas(R.optionsMap, linkStore)
          THEN addRelationsToItem(R, item, linksToMap, i + 1)
          ELSE LET options == MapGet(R.optionsMap, linkStore)
                   asUnknown == item.o[property]
                   unknowns == SelectSeq(asArray(asUnknown),
                                         LAMBDA d : TypeofObject(d) /\ d.k # "null")
                   moreLinks == MapGetOr(R.linkMap, options.storeName, E)
                   linksAdded == [j \in 1..Len(unknowns) |->
                     Spread(addRelationsToItem(R, unknowns[j], moreLinks, 1),
                            linkTags(options.storeName,
                                     extractUuid(Prop(unknowns[j], options.primaryKey))))]
                   linked == IF IsArray(asUnknown) THEN Arr(linksAdded)
                             ELSE IF Len(linksAdded) = 0 THEN Undef ELSE linksAdded[1]
               IN addRelationsToItem(R, SetProp(item, property, linked), linksToMap, i + 1)

addRelationsToContent(R, content, linksToMap) ==
  [i \in 1..Len(content) |-> addRelationsToItem(R, content[i], linksToMap, 1)]

-----------------------------------------------------------------------------
(* TtPersistenceDatabaseService: the key maps and the storage settings.  A  *)
(* key map is a function from index names to the unique flag.               *)

\* the number of items createKeyMap samples
KeySample == 20

\* the property names that /^[a-zA-Z_$]/ rejects or that hold a dash
InvalidKeyNames == {"@id"}

\* the set of <<key path, unique>> that createKeyMapForItem adds for an item;
\* storeName is "" where the code has no options
RECURSIVE createKeyMapForItem(_, _, _, _)
createKeyMapForItem(R, item, storeName, path) ==
  LET uniques == IF MapHas(R.optionsMap, storeName)
                 THEN MapGet(R.optionsMap, storeName).uniqueKeys ELSE {}
      keys == {key \in DOMAIN item.o : key \notin InvalidKeyNames /\ ~IsArray(item.o[key])}
      forKey(key) ==
        LET keyPath == Append(path, key)
            links == MapGetOr(R.linkMap, storeName, E)
            optionsKey == MapGetOr(links, key, "")
        IN IF item.o[key].k = "obj"
           THEN IF MapHas(R.optionsMap, optionsKey)
                THEN createKeyMapForItem(R, item.o[key], optionsKey, keyPath)
                       \cup {<<Append(keyPath, idKey), FALSE>>}
                ELSE createKeyMapForItem(R, item.o[key], "", keyPath)
                       \cup {<<keyPath, key \in uniques>>}
           ELSE {<<keyPath, key \in uniques>>}
  IN UNION {forKey(key) : key \in keys}

createKeyMap(R, content, options) ==
  LET sample == SubSeq(content, 1, IF Len(content) < KeySample THEN Len(content) ELSE KeySample)
      entries == UNION {createKeyMapForItem(R, sample[i], options.storeName, E) :
                          i \in 1..Len(sample)}
      names == {<<e[1]>> : e \in entries} \cup {<<(<<idKey>>)>>}
  IN [n \in names |-> IF n = <<(<<idKey>>)>> THEN TRUE
                      ELSE \E e \in entries : <<e[1]>> = n /\ e[2]]

\* new Map([...storedMap.entries(), ...keyMap.entries()])
combineKeyMaps(storedMap, keyMap) ==
  [n \in DOMAIN storedMap \cup DOMAIN keyMap |->
     IF n \in DOMAIN keyMap THEN keyMap[n] ELSE storedMap[n]]

\* the registry after updateStorageSettings
RECURSIVE updateStorageSettingsFrom(_, _, _)
updateStorageSettingsFrom(R, linkedItems, i) ==
  IF i > Len(linkedItems) THEN writeStorageMap(R)
  ELSE LET storeName == linkedItems[i][1]
           keyMap == createKeyMap(R, linkedItems[i][2], MapGet(R.optionsMap, storeName))
           storedMap == MapGetOr(R.storageMap, storeName, E)
       IN updateStorageSettingsFrom(
            [R EXCEPT !.storageMap = MapSet(@, storeName, combineKeyMaps(storedMap, keyMap))],
            linkedItems, i + 1)

updateStorageSettings(R, linkedItems) == updateStorageSettingsFrom(R, linkedItems, 1)

\* the storeIndexMap that updateStorageSettings returns
storeIndexMap(R, linkedItems) ==
  [i \in 1..Len(linkedItems) |->
     <<linkedItems[i][1],
       DOMAIN createKeyMap(R, linkedItems[i][2], MapGet(R.optionsMap, linkedItems[i][1]))>>]

-----------------------------------------------------------------------------
(* IndexedDB.  The database is [version, stores]; stores is a function from *)
(* the names of the object stores to [rows, indices], rows a function from  *)
(* the key (the value under __pkey__) to the stored row, indices the set of *)
(* the index names, unique the set of those made with the unique flag.     *)

NoStores == [n \in {} |-> E]
NoRows == [n \in {} |-> E]

objectStoreNames(stores) == DOMAIN stores
deleteStore(stores, storeName) == [n \in DOMAIN stores \ {storeName} |-> stores[n]]
createObjectStore(stores, storeName, indices, unique) ==
  [n \in DOMAIN stores \cup {storeName} |->
     IF n = storeName THEN [rows |-> NoRows, indices |-> indices, unique |-> unique]
     ELSE stores[n]]

\* the indices createIndices makes from a key map
createIndices(keyMap) == {n \in DOMAIN keyMap : n # <<(<<idKey>>)>>}

\* those of them it makes with { unique: true }
uniqueIndices(keyMap) == {n \in createIndices(keyMap) : keyMap[n]}

\* the indices createTriggerIndices makes
createTriggerIndices(triggers) == {triggers[i].index : i \in 1..Len(triggers)}

\* The three steps of the upgrade work on [R, stores]
RECURSIVE handleObjectStoreUpdatesFrom(_, _, _)
handleObjectStoreUpdatesFrom(R, stores, i) ==
  IF i > Len(R.storageMap) THEN stores
  ELSE LET storeName == R.storageMap[i][1]
           indices == R.storageMap[i][2]
           exists == storeName \in objectStoreNames(stores)
           update == storeName \in SeqToSet(R.settings.mutations.update)
           triggers == SelectSeq(R.settings.triggers, LAMBDA t : t.storeName = storeName)
       IN IF exists /\ ~update
          THEN handleObjectStoreUpdatesFrom(R, stores, i + 1)
          ELSE handleObjectStoreUpdatesFrom(R,
                 createObjectStore(deleteStore(stores, storeName), storeName,
                                   createIndices(indices) \cup createTriggerIndices(triggers),
                                   uniqueIndices(indices)),
                 i + 1)

handleObjectStoreUpdates(W) ==
  IF W.R.settings.mutations.update = E THEN W
  ELSE [R |-> withUpdate(W.R, E),
        stores |-> handleObjectStoreUpdatesFrom(W.R, W.stores, 1)]

RECURSIVE handleObjectStoreRemovalsFrom(_, _)
handleObjectStoreRemovalsFrom(W, removals) ==
  IF removals = E THEN W
  ELSE LET storeName == Head(removals)
       IN IF storeName \notin objectStoreNames(W.stores)
          THEN handleObjectStoreRemovalsFrom(W, Tail(removals))
          ELSE handleObjectStoreRemovalsFrom(
                 [R |-> [W.R EXCEPT !.storageMap = MapDelete(@, storeName)],
                  stores |-> deleteStore(W.stores, storeName)],
                 Tail(removals))

removedStores(W) == [R |-> withRemove(writeStorageMap(W.R), E), stores |-> W.stores]

handleObjectStoreRemovals(W) ==
  IF W.R.settings.mutations.remove = E THEN W
  ELSE removedStores(handleObjectStoreRemovalsFrom(W, W.R.settings.mutations.remove))

\* cleanups.find((item) => item.storeName === storeName)
findCleanup(cleanups, storeName) ==
  cleanups[CHOOSE i \in 1..Len(cleanups) :
             /\ cleanups[i].storeName = storeName
             /\ \A j \in 1..(i - 1) : cleanups[j].storeName # storeName]

handleObjectStoreIndices(W) ==
  LET cleanups == W.R.settings.mutations.indices
      storeNames == {cleanups[i].storeName : i \in 1..Len(cleanups)}
                      \cap objectStoreNames(W.stores)
  IN IF cleanups = E THEN W
     ELSE [R |-> withIndices(W.R, E),
           stores |-> [n \in DOMAIN W.stores |->
                         IF n \in storeNames
                         THEN [W.stores[n] EXCEPT
                                 !.indices = @ \ findCleanup(cleanups, n).indices,
                                 !.unique = @ \ findCleanup(cleanups, n).indices]
                         ELSE W.stores[n]]]

savedSettings(W) == [R |-> writeSettings(W.R), stores |-> W.stores]

\* a variant that leaves out the last statement, this.settings = this.settings
createOrUpdateObjectStoresUnsaved(W) ==
  handleObjectStoreIndices(handleObjectStoreRemovals(handleObjectStoreUpdates(W)))

createOrUpdateObjectStores(W) ==
  savedSettings(
    handleObjectStoreIndices(handleObjectStoreRemovals(handleObjectStoreUpdates(W))))

\* initializeDatabase, once the storage map is not empty: the open request
\* of the version of the settings, its upgrade, and the handle it answers
openFails(R, db) == R.settings.version < db.version

upgraded(W, version) == [R |-> W.R, db |-> [version |-> version, stores |-> W.stores]]

initializeDatabase(R, db) ==
  IF R.settings.version > db.version
  THEN upgraded(createOrUpdateObjectStores([R |-> R, stores |-> db.stores]),
                R.settings.version)
  ELSE [R |-> R, db |-> db]

-----------------------------------------------------------------------------
(* TtPersistenceStoreService: the insertion of the queue.  What a chain of  *)
(* observables answers is [status, value]: status "ok" when it emits,       *)
(* "fault" when it errors, "hang" when it does neither.                     *)

Answer(status, value) == [status |-> status, value |-> value]

\* the value of a row under a key path, Undef where the path leads nowhere
RECURSIVE valueAt(_, _)
valueAt(item, path) ==
  IF path = E THEN item
  ELSE IF ~HasOwn(item, Head(path)) THEN Undef
  ELSE valueAt(item.o[Head(path)], Tail(path))

\* the put of the item is rejected with a ConstraintError: a row of another
\* key holds the value the item has under the key path of a unique index
violatesUnique(store, item) ==
  \E n \in store.unique : \E key \in DOMAIN store.rows :
    /\ key # Prop(item, idKey)
    /\ valueAt(item, n[1]).k = "str"
    /\ valueAt(store.rows[key], n[1]) = valueAt(item, n[1])

\* store.put(item) for every item, in order: the store after the requests;
\* the error handler of a rejected request prevents the abort, so the other
\* rows are kept
RECURSIVE putAll(_, _)
putAll(store, items) ==
  IF items = E THEN store
  ELSE LET item == Head(items)
           key == Prop(item, idKey)
       IN IF violatesUnique(store, item) THEN putAll(store, Tail(items))
          ELSE putAll([store EXCEPT !.rows = [k \in DOMAIN @ \cup {key} |->
                                               IF k = key THEN item ELSE @[k]]],
                      Tail(items))

\* the items whose request is rejected, in order
RECURSIVE putErrors(_, _)
putErrors(store, items) ==
  IF items = E THEN E
  ELSE (IF violatesUnique(store, Head(items)) THEN <<Head(items)>> ELSE E)
         \o putErrors(putAll(store, <<Head(items)>>), Tail(items))

\* the request of the last item is rejected: its success handler, the one
\* that answers, never runs
lastRejected(store, items) ==
  violatesUnique(putAll(store, SubSeq(items, 1, Len(items) - 1)), items[Len(items)])

\* a variant that undoes the puts made before the key that is rejected
validPrefixUndone(items) ==
  IF \E i \in 1..Len(items) : Prop(items[i], idKey).k # "str" THEN E ELSE items

\* the items before the first one whose key IndexedDB rejects with a DataError
validPrefix(items) ==
  SubSeq(items, 1,
         IF \E i \in 1..Len(items) : Prop(items[i], idKey).k # "str"
         THEN (CHOOSE i \in 1..Len(items) :
                 /\ Prop(items[i], idKey).k # "str"
                 /\ \A j \in 1..(i - 1) : Prop(items[j], idKey).k = "str") - 1
         ELSE Len(items))

\* createQueueObservable, after addIdKeyToContent: the rows it puts
queueItems(R, storeName, content) ==
  addRelationsToContent(R,
    addIdKeyToContent(content, MapGet(R.optionsMap, storeName).primaryKey),
    MapGetOr(R.linkMap, storeName, E))

\* createBatchInsertObservable: store after store; a store without options
\* or a key that is no valid key faults, a store with no items never answers
RECURSIVE createBatchInsertObservable(_, _, _, _)
RECURSIVE createQueueObservable(_, _, _, _, _)
createBatchInsertObservable(R, stores, queuedItems, i) ==
  IF i > Len(queuedItems) THEN Answer("ok", stores)
  ELSE IF ~MapHas(R.optionsMap, queuedItems[i][1]) THEN Answer("fault", stores)
  ELSE createQueueObservable(R, stores, queuedItems, i,
                             queueItems(R, queuedItems[i][1], queuedItems[i][2]))

\* the puts of one store: parsed are its rows, put up to a key that is no
\* valid key, for which store.put throws.  The errors of the requests arrive
\* after the loop has tested errors.length, so a rejected request is never
\* reported: the call answers when the request of the last item succeeds
createQueueObservable(R, stores, queuedItems, i, parsed) ==
  IF parsed = E THEN Answer("hang", stores)
  ELSE IF Len(validPrefix(parsed)) < Len(parsed)
  THEN Answer("fault",
              [stores EXCEPT ![queuedItems[i][1]] = putAll(@, validPrefix(parsed))])
  ELSE IF lastRejected(stores[queuedItems[i][1]], parsed)
  THEN Answer("hang", [stores EXCEPT ![queuedItems[i][1]] = putAll(@, parsed)])
  ELSE createBatchInsertObservable(R,
         [stores EXCEPT ![queuedItems[i][1]] = putAll(@, parsed)], queuedItems, i + 1)

\* database.transaction(stores) throws when a store is missing or none is named
insertLinkedItemsInStores(R, stores, queuedItems) ==
  IF queuedItems = E \/ ~(MapKeySet(queuedItems) \subseteq objectStoreNames(stores))
  THEN Answer("fault", stores)
  ELSE createBatchInsertObservable(R, stores, queuedItems, 1)

\* [...storeMap.keys()] of the AddedMap: the keys put, each once, in the order
\* of their first put
RECURSIVE addedKeys(_, _)
addedKeys(items, seen) ==
  IF items = E THEN E
  ELSE LET key == Prop(Head(items), idKey)
       IN IF key \in seen THEN addedKeys(Tail(items), seen)
          ELSE <<key>> \o addedKeys(Tail(items), seen \cup {key})

-----------------------------------------------------------------------------
(* TtPersistenceStoreService: the parents of a store and their update.  A   *)
(* ParentLink is [storeName, childStoreName, property, idKey,              *)
(* parentStoreName, path]; a parentStoreName of "" and a path of E are the  *)
(* fields not set.                                                          *)

\* the entries of the LinkMap in the order the two loops visit them
linkTriples(lm) ==
  Flatten([i \in 1..Len(lm) |->
             [j \in 1..Len(lm[i][2]) |-> <<lm[i][1], lm[i][2][j][1], lm[i][2][j][2]>>]])

RECURSIVE updateParentLinkFrom(_, _, _)
updateParentLinkFrom(link, parentMap, i) ==
  IF i > Len(parentMap) THEN link
  ELSE updateParentLinkFrom(
         IF parentMap[i][2].childStoreName = link.storeName
         THEN [link EXCEPT !.parentStoreName = parentMap[i][1]] ELSE link,
         parentMap, i + 1)

updateParentLink(link, parentMap) == updateParentLinkFrom(link, parentMap, 1)

RECURSIVE createParentLinkMapFrom(_, _, _, _)
createParentLinkMapFrom(R, storeName, parentMap, triples) ==
  IF triples = E THEN parentMap
  ELSE IF Head(triples)[3] # storeName
  THEN createParentLinkMapFrom(R, storeName, parentMap, Tail(triples))
  ELSE LET parent == Head(triples)[1]
           link == [storeName |-> parent, childStoreName |-> storeName,
                    property |-> Head(triples)[2],
                    idKey |-> IF MapHas(R.optionsMap, storeName)
                              THEN MapGet(R.optionsMap, storeName).primaryKey ELSE "",
                    parentStoreName |-> "", path |-> E]
           withParents == createParentLinkMapFrom(R, parent, MapSet(parentMap, parent, link),
                                                  linkTriples(R.linkMap))
       IN createParentLinkMapFrom(R, storeName,
            MapSet(withParents, parent, updateParentLink(link, withParents)),
            Tail(triples))

createParentLinkMap(R, storeName) ==
  createParentLinkMapFrom(R, storeName, E, linkTriples(R.linkMap))

\* <<the first ParentLink whose child is the store>>, or E
getParentLinkForStore(parentMap, storeName) ==
  LET found == SelectSeq(parentMap, LAMBDA e : e[2].childStoreName = storeName)
  IN IF found = E THEN E ELSE <<found[1][2]>>

\* the string order of the keys of the rows: the keys the model stores, in
\* the order IndexedDB keeps them
KeyOrder ==
  <<Str(<<"/api/locations/1">>), Str(<<U1>>), Str(<<U2>>), Str(<<"c1">>), Str(<<"p1">>),
    Str(<<"p2">>)>>

sortedKeys(rows) == SelectSeq(KeyOrder, LAMBDA k : k \in DOMAIN rows)

\* index.get(gpsId) on the index property.__pkey__ : <<the first row>> or E
indexGet(store, property, gpsId) ==
  LET keys == SelectSeq(sortedKeys(store.rows),
                        LAMBDA k : valueAt(store.rows[k], <<property, idKey>>) = gpsId)
  IN IF keys = E THEN E ELSE <<store.rows[keys[1]]>>

\* createParentResultObservable and the map of createParentLinkObservables
\* for one item: "fault" when the store or its index is missing, the key is
\* no valid key, or no parent row is found (result[property] of undefined)
parentLookupFails(stores, parentLink, item) ==
  LET gpsId == extractUuid(Prop(item, parentLink.idKey))
  IN \/ parentLink.storeName \notin objectStoreNames(stores)
     \/ <<(<<parentLink.property, idKey>>)>> \notin stores[parentLink.storeName].indices
     \/ gpsId.k # "str"
     \/ indexGet(stores[parentLink.storeName], parentLink.property, gpsId) = E

\* the item as createParentLinkObservables tags it
taggedItem(parentLink, item) ==
  SetProp(SetProp(item, idKey, extractUuid(Prop(item, parentLink.idKey))),
          storeKey, Str(<<parentLink.childStoreName>>))

parentResult(stores, parentLink, item) ==
  SetProp(indexGet(stores[parentLink.storeName], parentLink.property,
                   extractUuid(Prop(item, parentLink.idKey)))[1],
          parentLink.property, taggedItem(parentLink, item))

\* createUpdateParentsObservable: with one item it answers the parent row;
\* with two it answers the number that results.push returns; with more, or
\* with none, it faults
createUpdateParentsObservable(stores, content, storeLink) ==
  LET items == [i \in 1..Len(content) |-> taggedItem(storeLink, content[i])]
  IN IF Len(content) = 0 \/ Len(content) > 2
        \/ \E i \in 1..Len(content) : parentLookupFails(stores, storeLink, content[i])
     THEN Answer("fault", [items |-> content, results |-> E])
     ELSE IF Len(content) = 2
     THEN Answer("number", [items |-> items, results |-> E])
     ELSE Answer("ok", [items |-> items,
                        results |-> <<parentResult(stores, storeLink, content[1])>>])

RECURSIVE updateParentsWithUpdatedLinks(_, _, _, _)
RECURSIVE updateParentsOfLink(_, _, _, _)
RECURSIVE updatedParents(_, _, _, _, _)
updateParentsWithUpdatedLinks(stores, storeName, queueMap, parentMap) ==
  updateParentsOfLink(stores, queueMap, parentMap,
                      getParentLinkForStore(parentMap, storeName))

\* found is <<the ParentLink of the store>> or E
updateParentsOfLink(stores, queueMap, parentMap, found) ==
  IF found = E THEN Answer("ok", queueMap)
  ELSE updatedParents(stores, queueMap, parentMap, found[1],
         createUpdateParentsObservable(
           stores, MapGetOr(queueMap, found[1].childStoreName, E), found[1]))

\* updated is what createUpdateParentsObservable answered for the link
updatedParents(stores, queueMap, parentMap, storeLink, updated) ==
  IF updated.status = "fault" THEN Answer("fault", queueMap)
  ELSE IF updated.status = "number"
  THEN IF storeLink.parentStoreName # "" THEN Answer("fault", queueMap)
       ELSE Answer("number", MapSet(queueMap, storeLink.childStoreName, updated.value.items))
  ELSE IF storeLink.parentStoreName # ""
  THEN updateParentsWithUpdatedLinks(stores, storeLink.storeName,
         MapSet(MapSet(queueMap, storeLink.childStoreName, updated.value.items),
                storeLink.storeName, updated.value.results),
         parentMap)
  ELSE Answer("ok", MapSet(MapSet(queueMap, storeLink.childStoreName, updated.value.items),
                           storeLink.storeName, updated.value.results))

\* the keys of the AddedMap of a store: those put, but for the keys that the
\* error handler of a rejected request deleted
updatedKeys(store, items) ==
  SelectSeq(addedKeys(items, {}),
            LAMBDA key : \A n \in 1..Len(putErrors(store, items)) :
                           Prop(putErrors(store, items)[n], idKey) # key)

\* the end of updateContentInStore: inserted is what the insertion answered,
\* stores the object stores before it
addedToStore(R, stores, storeName, parents, inserted) ==
  IF parents.status = "number"
  THEN Answer(IF inserted.status = "ok" THEN "fault" ELSE inserted.status,
              [stores |-> inserted.value, gpsIds |-> E])
  ELSE Answer(inserted.status,
              [stores |-> inserted.value,
               gpsIds |-> IF inserted.status = "ok"
                          THEN updatedKeys(stores[storeName],
                                           queueItems(R, storeName,
                                                      MapGet(parents.value, storeName)))
                          ELSE E])

\* parents is what updateParentsWithUpdatedLinks answered
insertUpdated(R, stores, storeName, parents) ==
  IF parents.status = "fault" THEN Answer("fault", [stores |-> stores, gpsIds |-> E])
  ELSE addedToStore(R, stores, storeName, parents,
                    insertLinkedItemsInStores(R, stores, parents.value))

\* updateContentInStore answers [stores, gpsIds]; where the parent's content
\* is a number, the stores queued before it are written and the call faults
updateContentInStore(R, stores, storeName, queueMap) ==
  insertUpdated(R, stores, storeName,
                updateParentsWithUpdatedLinks(stores, storeName, queueMap,
                                              createParentLinkMap(R, storeName)))

-----------------------------------------------------------------------------
(* TtPersistenceRetrieveService: reading by key *)

\* the operators createLinkedResultObservable pushes for a result, as
\* [storeName, property, gpsId, array]
linkedOperators(R, result, links) ==
  Flatten([i \in 1..Len(links) |->
    LET property == links[i][1]
        linkedObject == Prop(result, property)
        withKey == SelectSeq(asArray(linkedObject), LAMBDA l : Prop(l, idKey).k = "str")
    IN IF ~HasOwn(result, property) \/ ~TypeofObject(linkedObject) THEN E
       ELSE IF IsArray(linkedObject)
       THEN [j \in 1..Len(withKey) |->
               [storeName |-> links[i][2], property |-> property,
                gpsId |-> Prop(withKey[j], idKey), array |-> TRUE]]
       ELSE IF ~Truthy(Prop(linkedObject, idKey)) THEN E
       ELSE <<[storeName |-> links[i][2], property |-> property,
               gpsId |-> Prop(linkedObject, idKey), array |-> FALSE]>>])

\* linkedObject[idKey] of null and options.storeName of undefined throw
linkedOperatorsThrow(R, result, links) ==
  \E i \in 1..Len(links) :
    LET linkedObject == Prop(result, links[i][1])
    IN /\ HasOwn(result, links[i][1])
       /\ TypeofObject(linkedObject)
       /\ \/ linkedObject.k = "null"
          \/ IsArray(linkedObject) /\ \E j \in 1..Len(linkedObject.a) :
               linkedObject.a[j].k \in {"null", "undef"}
          \/ /\ ~MapHas(R.optionsMap, links[i][2])
             /\ linkedOperators(R, result, <<links[i]>>) # E

RECURSIVE createResultObservable(_, _, _, _)
RECURSIVE createLinkedResultObservable(_, _, _, _)
RECURSIVE createLinkedResultOperator(_, _, _, _)

\* store.get(primaryKey): a missing store or a key that is no valid key
\* throws; for a missing row Object.keys(undefined) throws inside the success
\* handler and nothing is ever answered
createResultObservable(R, stores, storeName, primaryKey) ==
  IF storeName \notin objectStoreNames(stores) \/ primaryKey.k # "str"
  THEN Answer("fault", Undef)
  ELSE IF primaryKey \notin DOMAIN stores[storeName].rows THEN Answer("hang", Undef)
  ELSE createLinkedResultObservable(R, stores, storeName, stores[storeName].rows[primaryKey])

createLinkedResultObservable(R, stores, storeName, result) ==
  LET links == MapGetOr(R.linkMap, storeName, E)
  IN IF links = E THEN Answer("ok", result)
     ELSE IF linkedOperatorsThrow(R, result, links) THEN Answer("fault", Undef)
     ELSE createLinkedResultOperator(R, stores, result, linkedOperators(R, result, links))

\* the chain of the operators: each fetches the linked row and sets it on, or
\* for an array appends it to, the property of the current result
createLinkedResultOperator(R, stores, current, operators) ==
  IF operators = E THEN Answer("ok", current)
  ELSE LET op == Head(operators)
           linked == createResultObservable(R, stores, op.storeName, op.gpsId)
       IN IF linked.status # "ok" THEN Answer(linked.status, Undef)
          ELSE createLinkedResultOperator(R, stores,
                 SetProp(current, op.property,
                         IF op.array
                         THEN Arr(Append(Prop(current, op.property).a, linked.value))
                         ELSE linked.value),
                 Tail(operators))

\* getContentById answers the rows of the keys, in the order of the keys
RECURSIVE getContentByIdFrom(_, _, _, _, _)
getContentByIdFrom(R, stores, storeName, gpsIds, previous) ==
  IF gpsIds = E THEN Answer("ok", previous)
  ELSE LET result == createResultObservable(R, stores, storeName, Head(gpsIds))
       IN IF result.status # "ok" THEN Answer(result.status, E)
          ELSE getContentByIdFrom(R, stores, storeName, Tail(gpsIds),
                                  previous \o asArray(result.value))

\* store.get(undefined) throws when no key is given
getContentById(R, stores, storeName, gpsIds) ==
  IF gpsIds = E THEN Answer("fault", E)
  ELSE getContentByIdFrom(R, stores, storeName, gpsIds, E)

\* a variant that removes the tags of the item and not of what it holds
cleanNestedShallow(item) == Obj([key \in DOMAIN item.o \ {idKey, storeKey} |-> item.o[key]])

\* removeGeneratedIdKeyFromContent: the two tags are deleted at every depth
RECURSIVE cleanNested(_)
cleanNested(item) ==
  LET keys == DOMAIN item.o \ {idKey, storeKey}
  IN Obj([key \in keys |->
            IF IsArray(item.o[key])
            THEN Arr([i \in 1..Len(item.o[key].a) |-> cleanNested(item.o[key].a[i])])
            ELSE IF item.o[key].k = "obj" THEN cleanNested(item.o[key])
            ELSE item.o[key]])

removeGeneratedIdKeyFromContent(content) ==
  [i \in 1..Len(content) |-> cleanNested(content[i])]

-----------------------------------------------------------------------------
(* TtPersistenceDeleteService: the pruning of the parents' rows.  A cascade *)
(* type is "DELETE", "NULL", "UNDEFINED" or "KEEP".                         *)

RECURSIVE createParentDeleteMapFrom(_, _)
createParentDeleteMapFrom(parentMap, i) ==
  IF i > Len(parentMap) THEN parentMap
  ELSE LET link == parentMap[i][2]
       IN IF ~MapHas(parentMap, link.parentStoreName)
          THEN createParentDeleteMapFrom(parentMap, i + 1)
          ELSE LET parent == MapGet(parentMap, link.parentStoreName)
                   linkPath == IF link.path = E THEN <<link.property>> ELSE link.path
                   withLink == MapSet(parentMap, parentMap[i][1], [link EXCEPT !.path = linkPath])
               IN createParentDeleteMapFrom(
                    MapSet(withLink, parent.storeName,
                           [parent EXCEPT !.path = <<parent.property>> \o linkPath]),
                    i + 1)

createParentDeleteMap(R, storeName) ==
  createParentDeleteMapFrom(createParentLinkMap(R, storeName), 1)

handleCascade(item, property, type) ==
  CASE type = "DELETE" -> DelProp(item, property)
    [] type = "NULL" -> SetProp(item, property, Null)
    [] type = "UNDEFINED" -> SetProp(item, property, Undef)
    [] OTHER -> item

\* the item after traverseItemPath
RECURSIVE traverseItemPath(_, _, _)
traverseItemPath(item, path, type) ==
  IF path = E \/ ~HasOwn(item, Head(path)) THEN item
  ELSE IF Len(path) > 1
  THEN LET nested == item.o[Head(path)]
       IN IF nested.k = "obj"
          THEN SetProp(item, Head(path), traverseItemPath(nested, Tail(path), type))
          ELSE IF IsArray(nested)
          THEN SetProp(item, Head(path),
                 Arr([i \in 1..Len(nested.a) |-> traverseItemPath(nested.a[i], Tail(path), type)]))
          ELSE item
  ELSE handleCascade(item, Head(path), type)

\* a variant that takes every nested item for one to remove, whatever its key
checkItemRemovalStateAny(item, primaryKeys, property) ==
  Truthy(Prop(item, property))

checkItemRemovalState(item, primaryKeys, property) ==
  LET nested == Prop(item, property)
  IN Truthy(nested) /\ Prop(nested, idKey) \in SeqToSet(primaryKeys)

\* traverseItemPathForId answers [item, adjusted]: the item after it and what
\* it returns.  For an array at the end of the path the elements that match
\* are traversed with the empty path, which changes nothing
RECURSIVE traverseItemPathForId(_, _, _, _)
traverseItemPathForId(item, path, type, primaryKeys) ==
  IF path = E \/ ~HasOwn(item, Head(path)) THEN [item |-> item, adjusted |-> FALSE]
  ELSE IF Len(path) > 1
  THEN LET nested == item.o[Head(path)]
           each == [i \in 1..Len(nested.a) |->
                      traverseItemPathForId(nested.a[i], Tail(path), type, primaryKeys)]
           one == traverseItemPathForId(nested, Tail(path), type, primaryKeys)
       IN IF nested.k = "obj"
          THEN [item |-> SetProp(item, Head(path), one.item), adjusted |-> one.adjusted]
          ELSE IF IsArray(nested)
          THEN [item |-> SetProp(item, Head(path), Arr([i \in 1..Len(each) |-> each[i].item])),
                adjusted |-> \E i \in 1..Len(each) : each[i].adjusted]
          ELSE [item |-> item, adjusted |-> FALSE]
  ELSE IF IsArray(item.o[Head(path)]) THEN [item |-> item, adjusted |-> FALSE]
  ELSE IF checkItemRemovalState(item, primaryKeys, Head(path))
  THEN [item |-> handleCascade(item, Head(path), type), adjusted |-> TRUE]
  ELSE [item |-> item, adjusted |-> FALSE]

\* createPruningObservable: the cursor over the rows of a parent; primaryKeys
\* is <<the keys>> for handlePruneById and E for handlePruneAll.  It answers
\* the TtPersistenceDeleteResult with its content
createPruningObservable(R, stores, link, primaryKeys, type) ==
  LET rows == stores[link.storeName].rows
      keys == sortedKeys(rows)
      pruned == [i \in 1..Len(keys) |->
                   IF primaryKeys = E
                   THEN [item |-> traverseItemPath(rows[keys[i]], link.path, type),
                         adjusted |-> TRUE]
                   ELSE traverseItemPathForId(rows[keys[i]], link.path, type, primaryKeys[1])]
      removed == SelectSeq(pruned, LAMBDA r : r.adjusted)
  IN [storeName |-> link.storeName,
      primaryKeys |-> [i \in 1..Len(removed) |-> Prop(removed[i].item, idKey)],
      path |-> link.path, type |-> type,
      content |-> [i \in 1..Len(removed) |-> removed[i].item]]

\* options.cascade of undefined, the transaction of a missing store and
\* link.path.join of undefined throw
pruningThrows(R, stores, link) ==
  \/ ~MapHas(R.optionsMap, link.storeName)
  \/ link.storeName \notin objectStoreNames(stores)
  \/ link.path = E

\* type ?? options.cascade ?? TtDeleteCascade.KEEP
cascadeType(R, link, type) ==
  IF type # "none" THEN type
  ELSE IF MapGet(R.optionsMap, link.storeName).cascade # "none"
  THEN MapGet(R.optionsMap, link.storeName).cascade
  ELSE "KEEP"

\* createPruningOperators answers [queueMap, results], parent after parent
RECURSIVE createPruningOperators(_, _, _, _, _, _)
createPruningOperators(R, stores, parents, primaryKeys, type, combined) ==
  IF parents = E THEN Answer("ok", combined)
  ELSE IF pruningThrows(R, stores, Head(parents)) THEN Answer("fault", combined)
  ELSE LET deleteResult == createPruningObservable(R, stores, Head(parents), primaryKeys,
                                                   cascadeType(R, Head(parents), type))
       IN createPruningOperators(R, stores, Tail(parents), primaryKeys, type,
            [queueMap |-> MapSet(combined.queueMap, Head(parents).storeName,
                                 deleteResult.content),
             results |-> Append(combined.results,
                                [storeName |-> deleteResult.storeName,
                                 primaryKeys |-> deleteResult.primaryKeys,
                                 path |-> deleteResult.path, type |-> deleteResult.type])])

\* the end of checkAndPruneParents: the pruned rows are put back, and the
\* results of the pruning are answered
insertPruned(pruned, inserted) ==
  Answer(inserted.status,
         [stores |-> inserted.value,
          results |-> IF inserted.status = "ok" THEN pruned.value.results ELSE E])

\* pruned is what the pruning operators answered
prunedParents(R, stores, pruned) ==
  IF pruned.status # "ok" THEN Answer(pruned.status, [stores |-> stores, results |-> E])
  ELSE insertPruned(pruned, insertLinkedItemsInStores(R, stores, pruned.value.queueMap))

\* checkAndPruneParents answers [stores, results]; result is <<the result of
\* the deletion>> or E
checkAndPruneParents(R, stores, deleteMap, primaryKeys, result) ==
  IF deleteMap = E THEN Answer("ok", [stores |-> stores, results |-> result])
  ELSE prunedParents(R, stores,
         createPruningOperators(R, stores, [i \in 1..Len(deleteMap) |-> deleteMap[i][2]],
                                primaryKeys, "none", [queueMap |-> E, results |-> E]))

-----------------------------------------------------------------------------
(* TtPersistenceDeleteService: deleting rows and dropping a store *)

\* deleteContentFromStore, up to the result of the deletion itself: every
\* key is deleted; the result is emitted from the success handler of a key
\* whose first position in idKeys is the last position
deleteRowsFrom(store, idKeys) ==
  [store EXCEPT !.rows = [k \in DOMAIN @ \ SeqToSet(idKeys) |-> @[k]]]

deleteEmits(idKeys) ==
  /\ idKeys # E
  /\ \A i \in 1..(Len(idKeys) - 1) : idKeys[i] # idKeys[Len(idKeys)]

deleteContentFromStore(R, stores, storeName, idKeys) ==
  IF storeName \notin objectStoreNames(stores)
  THEN Answer("fault", [stores |-> stores, results |-> E])
  ELSE IF ~deleteEmits(idKeys)
  THEN Answer("hang", [stores |-> [stores EXCEPT ![storeName] = deleteRowsFrom(@, idKeys)],
                       results |-> E])
  ELSE checkAndPruneParents(R, [stores EXCEPT ![storeName] = deleteRowsFrom(@, idKeys)],
                            createParentDeleteMap(R, storeName), <<idKeys>>,
                            <<[storeName |-> storeName, primaryKeys |-> idKeys, path |-> E,
                               type |-> "DELETE"]>>)

pruneLinkMap(lm, storeName) ==
  LET kept == MapDelete(lm, storeName)
  IN [i \in 1..Len(kept) |->
        <<kept[i][1], SelectSeq(kept[i][2], LAMBDA e : e[2] # storeName)>>]

pruneOptionsMap(om, storeName) == MapDelete(om, storeName)

\* index.indexOf(path) > -1, for the joined path of a link: some key path of
\* the index holds the segments of the path in a row
indexHoldsPath(index, path) ==
  \E i \in 1..Len(index) : \E from \in 1..Len(index[i]) :
    /\ from + Len(path) - 1 <= Len(index[i])
    /\ SubSeq(index[i], from, from + Len(path) - 1) = path

\* the cleanups createIndexMutations pushes
createIndexMutations(R, deleteMap) ==
  LET links == SelectSeq(deleteMap, LAMBDA e : e[2].path # E /\ MapHas(R.storageMap, e[1]))
  IN [i \in 1..Len(links) |->
        [storeName |-> links[i][1],
         indices |-> {index \in DOMAIN MapGet(R.storageMap, links[i][1]) :
                        indexHoldsPath(index, links[i][2].path)}]]

\* prunePersistenceSettings after the storage map is set
pruneSettings(R, storeName, deleteMap, options, links) ==
  writeSettings(
    withMaps(
      withOptions(
        withLinks(
          withIndices(
            withVersion(
              withRemove(R, SetAdd(R.settings.mutations.remove, storeName)),
              R.settings.version + 1),
            R.settings.mutations.indices \o createIndexMutations(R, deleteMap)),
          convertLinkMapToSettingsLink(links)),
        options),
      options, links))

prunePersistenceSettings(R, storeName, deleteMap) ==
  pruneSettings(writeStorageMap([R EXCEPT !.storageMap = MapSet(@, storeName, NoRows)]),
                storeName, deleteMap,
                pruneOptionsMap(R.optionsMap, storeName), pruneLinkMap(R.linkMap, storeName))

\* the end of deleteObjectStore: pruned is what checkAndPruneParents answered
droppedAndPruned(opened, pruned) ==
  [R |-> opened.R, db |-> [opened.db EXCEPT !.stores = pruned.value.stores],
   handle |-> TRUE, status |-> pruned.status, value |-> pruned.value.results]

\* opened is the registry and the database after reInitialize
droppedStore(opened, storeName, type, deleteMap) ==
  IF type = "KEEP"
  THEN [R |-> opened.R, db |-> opened.db, handle |-> TRUE, status |-> "ok",
        value |-> <<[storeName |-> storeName, primaryKeys |-> E, path |-> E,
                     type |-> type]>>]
  ELSE droppedAndPruned(opened,
         checkAndPruneParents(opened.R, opened.db.stores, deleteMap, E, E))

\* R is the registry after prunePersistenceSettings
reInitialized(R, db, storeName, type, deleteMap) ==
  IF openFails(R, db)
  THEN [R |-> R, db |-> db, handle |-> FALSE, status |-> "fault", value |-> E]
  ELSE droppedStore(initializeDatabase(R, db), storeName, type, deleteMap)

dropWithParents(R, db, storeName, type, deleteMap) ==
  reInitialized(prunePersistenceSettings(R, storeName, deleteMap), db, storeName, type,
                deleteMap)

\* deleteObjectStore for one store name: what it leaves and what it answers
deleteObjectStore(R, db, storeName, type) ==
  dropWithParents(R, db, storeName, type, createParentDeleteMap(R, storeName))

-----------------------------------------------------------------------------
(* TtPersistenceService *)

createPersistenceResultsMap(queueMap, indexMap, store) ==
  [i \in 1..Len(queueMap) |->
     [storeName |-> queueMap[i][1],
      rows |-> IF store = "true" THEN Len(queueMap[i][2]) ELSE 0,
      indices |-> MapGetOr(indexMap, queueMap[i][1], {})]]

\* the end of persist: inserted is what the insertion answered
persistedContent(opened, results, inserted) ==
  [R |-> opened.R, db |-> [opened.db EXCEPT !.stores = inserted.value],
   handle |-> TRUE, status |-> inserted.status,
   value |-> IF inserted.status = "ok" THEN results ELSE E]

\* opened is the registry and the database after initializeDatabase
persistOpened(opened, linkedItems, options, results) ==
  IF options.storeContent = "false"
  THEN [R |-> opened.R, db |-> opened.db, handle |-> TRUE, status |-> "ok",
        value |-> results]
  ELSE persistedContent(opened, results,
         insertLinkedItemsInStores(opened.R, opened.db.stores, linkedItems))

\* R is the registry after updateStorageSettings, indexMap the key maps of
\* the stores of linkedItems
persistStored(R, db, linkedItems, options, indexMap) ==
  IF openFails(R, db)
  THEN [R |-> R, db |-> db, handle |-> FALSE, status |-> "fault", value |-> E]
  ELSE persistOpened(initializeDatabase(R, db), linkedItems, options,
                     createPersistenceResultsMap(linkedItems, indexMap,
                                                 options.storeContent))

\* R is the registry after updatePersistenceSettings
persistLinked(R, db, linkedItems, options) ==
  persistStored(updateStorageSettings(R, linkedItems), db, linkedItems, options,
                storeIndexMap(R, linkedItems))

persistParsed(R, db, content, options) ==
  persistLinked(R, db, parseContentForLinking(R, options.storeName, content, E), options)

persist(R, db, content, options) ==
  persistParsed(updatePersistenceSettings(R, options), db, content, options)

\* What a call fails with.  The errors the service declares name the store;
\* an exception of the engine or of the runtime (a DOMException, a TypeError)
\* is Thrown, and names none.
NoError == [name |-> "none", storeName |-> "", key |-> ""]
Thrown == [name |-> "exception", storeName |-> "", key |-> ""]
NoPrimaryKeyInSettingsError(storeName) ==
  [name |-> "NoPrimaryKeyInSettingsError", storeName |-> storeName, key |-> ""]
NoPrimaryKeyInObjectError(storeName, primaryKey) ==
  [name |-> "NoPrimaryKeyInObjectError", storeName |-> storeName, key |-> primaryKey]
IndexedDBAccessError == [name |-> "IndexedDBAccessError", storeName |-> "", key |-> ""]

\* { [idKey]: idValue, ...combined }, with no Generatable
createItemWithIdKeyValue(idKeyName, item) ==
  Spread(Obj(idKey :> extractUuid(Prop(item, idKeyName))), item)

\* post and put after the options are found, up to the rows read back
readBack(stored, read) ==
  [stores |-> stored.value.stores, status |-> read.status,
   value |-> IF read.status = "ok" THEN removeGeneratedIdKeyFromContent(read.value) ELSE E]

\* stored is what updateContentInStore answered
readStored(R, storeName, stored) ==
  IF stored.status # "ok"
  THEN [stores |-> stored.value.stores, status |-> stored.status, value |-> E]
  ELSE readBack(stored,
                getContentById(R, stored.value.stores, storeName, stored.value.gpsIds))

storeAndRead(R, stores, storeName, contents) ==
  readStored(R, storeName,
             updateContentInStore(R, stores, storeName,
                                  createQueueMap(R, MapGet(R.optionsMap, storeName),
                                                 contents)))

post(R, stores, storeName, contents) ==
  LET options == MapGet(R.optionsMap, storeName)
      extended == [i \in 1..Len(contents) |->
                     createItemWithIdKeyValue(options.primaryKey, contents[i])]
  IN IF ~MapHas(R.optionsMap, storeName)
        \/ \E i \in 1..Len(contents) :
             ~Truthy(extractUuid(Prop(contents[i], options.primaryKey)))
     THEN [stores |-> stores, status |-> "fault", value |-> E]
     ELSE storeAndRead(R, stores, storeName, extended)

\* the error of a post that fails
postError(R, storeName, contents) ==
  IF ~MapHas(R.optionsMap, storeName) THEN NoPrimaryKeyInSettingsError(storeName)
  ELSE IF \E i \in 1..Len(contents) :
            ~Truthy(extractUuid(Prop(contents[i], MapGet(R.optionsMap, storeName).primaryKey)))
  THEN NoPrimaryKeyInObjectError(storeName, MapGet(R.optionsMap, storeName).primaryKey)
  ELSE Thrown

put(R, stores, storeName, contents) ==
  IF ~MapHas(R.optionsMap, storeName)
  THEN [stores |-> stores, status |-> "fault", value |-> E]
  ELSE storeAndRead(R, stores, storeName, contents)

\* the error of a put that fails
putError(R, storeName) ==
  IF ~MapHas(R.optionsMap, storeName) THEN NoPrimaryKeyInSettingsError(storeName) ELSE Thrown

\* get with the primary key given as one string: the single row, cleaned
cleanRetrieved(retrieved) ==
  IF retrieved.status # "ok" THEN Answer(retrieved.status, Undef)
  ELSE Answer("ok", removeGeneratedIdKeyFromContent(retrieved.value)[1])

get(R, stores, storeName, primaryKeys) ==
  cleanRetrieved(getContentById(R, stores, storeName, asArray(primaryKeys)))

delete(R, stores, storeName, primaryKeys) ==
  deleteContentFromStore(R, stores, storeName,
                         [i \in 1..Len(primaryKeys) |-> extractUuid(primaryKeys[i])])

-----------------------------------------------------------------------------
(* The stores, options and content the calls are made with: the chain       *)
(* Company -owner-> Person -location-> Location of the readme.              *)

Loc1 == Obj(("@id" :> Str(<<"/api/locations/1">>)) @@ ("name" :> Str(<<"Test">>)))
Loc1b == Obj(("@id" :> Str(<<"/api/locations/1">>)) @@ ("name" :> Str(<<"Other">>)))
LocU == Obj(("@id" :> Str(<<"/api/locations/", U1, "/rooms/", U2>>))
            @@ ("name" :> Str(<<"Room">>)))
Per1 == Obj(("id" :> Str(<<"p1">>)) @@ ("location" :> Loc1))
Per1U == Obj(("id" :> Str(<<"p1">>)) @@ ("location" :> LocU))
Per2 == Obj(("id" :> Str(<<"p2">>)) @@ ("location" :> LocU))
PerArr == Obj(("id" :> Str(<<"p1">>)) @@ ("location" :> Arr(<<Loc1, LocU>>)))
Com1 == Obj(("id" :> Str(<<"c1">>)) @@ ("owner" :> Per1))
\* a Location of another identity with the name of Loc1, one whose "@id" holds
\* the UUID that LocU has first, one with no "@id", and a second Person at Loc1
LocT == Obj(("@id" :> Str(<<"/api/locations/", U2>>)) @@ ("name" :> Str(<<"Test">>)))
LocUx == Obj(("@id" :> Str(<<"/api/rooms/", U1>>)) @@ ("name" :> Str(<<"Hall">>)))
LocNoKey == Obj("name" :> Str(<<"Lost">>))
Per2L == Obj(("id" :> Str(<<"p2">>)) @@ ("location" :> Loc1))

Cascades == {"none", "DELETE", "NULL"}
DropTypes == {"DELETE", "NULL", "UNDEFINED", "KEEP"}

ByLocation == [name |-> "byLocation",
               rules |-> <<[property |-> <<"location">>, primaryKey |-> TRUE]>>]

LocationOptions == Options("Location", "@id", "none", "undef", E, E)
\* with uniqueKeys ['name'], with storeContent true and with storeContent false
LocationUnique == [LocationOptions EXCEPT !.uniqueKeys = {"name"}]
LocationStored == [LocationOptions EXCEPT !.storeContent = "true"]
LocationStructure == [LocationOptions EXCEPT !.storeContent = "false"]
PersonOptions(cascade, triggers) ==
  Options("Person", "id", cascade, "undef", triggers, <<(<<"location", LocationOptions>>)>>)
CompanyOptions(cascade, owner) ==
  Options("Company", "id", cascade, "undef", E, <<(<<"owner", PersonOptions(owner, E)>>)>>)

PersistInputs ==
  {[options |-> LocationOptions, content |-> c] :
     c \in {<<Loc1>>, <<Loc1, Loc1b>>, <<LocU>>, <<Loc1, LocNoKey>>}}
  \cup {[options |-> LocationUnique, content |-> c] :
          c \in {<<Loc1, LocT>>, <<Loc1, LocT, LocU>>}}
  \cup {[options |-> LocationStored, content |-> c] : c \in {<<Loc1>>, <<LocU, LocUx>>}}
  \cup {[options |-> LocationStructure, content |-> <<Loc1>>]}
  \cup {[options |-> PersonOptions("none", E), content |-> <<Per1, Per2L>>]}
  \cup {[options |-> PersonOptions(c, E), content |-> p] :
          c \in Cascades, p \in {<<Per1>>, <<PerArr>>, <<Per1, Per2>>}}
  \cup {[options |-> PersonOptions("none", <<ByLocation>>), content |-> <<Per1>>]}
  \cup {[options |-> CompanyOptions(c, o), content |-> <<Com1>>] :
          c \in {"none", "DELETE"}, o \in Cascades}

PostInputs ==
  {[storeName |-> "Location", content |-> <<Loc1b>>],
   [storeName |-> "Location", content |-> <<LocT>>],
   [storeName |-> "Location", content |-> <<LocNoKey>>],
   [storeName |-> "Person", content |-> <<Per2>>]}

PutInputs ==
  {[storeName |-> "Location", content |-> <<Loc1b>>],
   [storeName |-> "Location", content |-> <<Loc1b, LocU>>],
   [storeName |-> "Location", content |-> <<Loc1b, LocNoKey>>],
   [storeName |-> "Person", content |-> <<Per1U>>]}

GetInputs ==
  {[storeName |-> "Location", primaryKeys |-> Str(k)] :
     k \in {<<"/api/locations/1">>, <<U1>>, <<"1">>}}
  \cup {[storeName |-> "Person", primaryKeys |-> Str(k)] : k \in {<<"p1">>, <<"p2">>}}
  \cup {[storeName |-> "Company", primaryKeys |-> Str(<<"c1">>)]}

DeleteInputs ==
  {[storeName |-> "Location", primaryKeys |-> <<Str(k)>>] :
     k \in {<<"/api/locations/1">>, <<"/api/locations/", U1, "/rooms/", U2>>, <<"1">>}}
  \cup {[storeName |-> "Person", primaryKeys |-> <<Str(<<"p1">>)>>]}

DropInputs == {[storeName |-> n, type |-> t] : n \in {"Location", "Person"}, t \in DropTypes}

-----------------------------------------------------------------------------
(* The state machine.  A call that reads or writes rows waits for the       *)
(* connection (database$ filtered on a handle), so it is made here when a   *)
(* handle is held; its caller takes the first answer.                       *)

Init ==
  /\ settings = [version |-> 0, options |-> E, links |-> E,
                 mutations |-> [update |-> E, remove |-> E, indices |-> E],
                 triggers |-> E]
  /\ optionsMap = E
  /\ linkMap = E
  /\ triggerMap = E
  /\ storageMap = E
  /\ counterMap = E
  /\ local = [settings |-> E, storage |-> E]
  /\ idb = [version |-> 0, stores |-> NoStores]
  /\ handle = FALSE
  /\ last = [op |-> "none", storeName |-> "", input |-> E, status |-> "ok", value |-> E,
             error |-> NoError]
  /\ calls = 0

SetRegistry(R) ==
  /\ settings' = R.settings
  /\ optionsMap' = R.optionsMap
  /\ linkMap' = R.linkMap
  /\ triggerMap' = R.triggerMap
  /\ storageMap' = R.storageMap
  /\ local' = R.local

Persist(content, options) ==
  /\ calls < MaxCalls
  /\ LET done == persist(Registry, idb, content, options)
     IN /\ SetRegistry(done.R)
        /\ idb' = done.db
        /\ handle' = done.handle
        /\ last' = [op |-> "persist", storeName |-> options.storeName, input |-> content,
                    status |-> done.status, value |-> done.value,
                    error |-> IF done.status # "fault" THEN NoError
                              ELSE IF ~done.handle THEN IndexedDBAccessError ELSE Thrown]
  /\ calls' = calls + 1
  /\ UNCHANGED counterMap

Post(storeName, content) ==
  /\ calls < MaxCalls
  /\ handle
  /\ LET done == post(Registry, idb.stores, storeName, content)
     IN /\ idb' = [idb EXCEPT !.stores = done.stores]
        /\ last' = [op |-> "post", storeName |-> storeName, input |-> content,
                    status |-> done.status,
                    value |-> IF done.status = "ok" THEN Arr(done.value) ELSE Undef,
                    error |-> IF done.status # "fault" THEN NoError
                              ELSE postError(Registry, storeName, content)]
  /\ calls' = calls + 1
  /\ UNCHANGED <<settings, optionsMap, linkMap, triggerMap, storageMap, counterMap,
                 local, handle>>

Put(storeName, content) ==
  /\ calls < MaxCalls
  /\ handle
  /\ LET done == put(Registry, idb.stores, storeName, content)
     IN /\ idb' = [idb EXCEPT !.stores = done.stores]
        /\ last' = [op |-> "put", storeName |-> storeName, input |-> content,
                    status |-> done.status,
                    value |-> IF done.status # "ok" THEN Undef
                              ELSE IF Len(done.value) = 1 THEN done.value[1]
                              ELSE Arr(done.value),
                    error |-> IF done.status # "fault" THEN NoError
                              ELSE putError(Registry, storeName)]
  /\ calls' = calls + 1
  /\ UNCHANGED <<settings, optionsMap, linkMap, triggerMap, storageMap, counterMap,
                 local, handle>>

Get(storeName, primaryKeys) ==
  /\ calls < MaxCalls
  /\ handle
  /\ counterMap' = MapSet(counterMap, storeName, 0)
  /\ LET done == get(Registry, idb.stores, storeName, primaryKeys)
     IN last' = [op |-> "get", storeName |-> storeName, input |-> primaryKeys,
                 status |-> done.status, value |-> done.value,
                 error |-> IF done.status # "fault" THEN NoError ELSE Thrown]
  /\ calls' = calls + 1
  /\ UNCHANGED <<settings, optionsMap, linkMap, triggerMap, storageMap, local, idb, handle>>

Delete(storeName, primaryKeys) ==
  /\ calls < MaxCalls
  /\ handle
  /\ LET done == delete(Registry, idb.stores, storeName, primaryKeys)
     IN /\ idb' = [idb EXCEPT !.stores = done.value.stores]
        /\ last' = [op |-> "delete", storeName |-> storeName, input |-> primaryKeys,
                    status |-> done.status, value |-> done.value.results,
                    error |-> IF done.status # "fault" THEN NoError ELSE Thrown]
  /\ calls' = calls + 1
  /\ UNCHANGED <<settings, optionsMap, linkMap, triggerMap, storageMap, counterMap,
                 local, handle>>

DeleteObjectStore(storeName, type) ==
  /\ calls < MaxCalls
  /\ LET done == deleteObjectStore(Registry, idb, storeName, type)
     IN /\ SetRegistry(done.R)
        /\ idb' = done.db
        /\ handle' = done.handle
        /\ last' = [op |-> "deleteObjectStore", storeName |-> storeName, input |-> type,
                    status |-> done.status, value |-> done.value,
                    error |-> IF done.status # "fault" THEN NoError
                              ELSE IF ~done.handle THEN IndexedDBAccessError ELSE Thrown]
  /\ calls' = calls + 1
  /\ UNCHANGED counterMap

Next ==
  \/ \E i \in PersistInputs : Persist(i.content, i.options)
  \/ \E i \in PostInputs : Post(i.storeName, i.content)
  \/ \E i \in PutInputs : Put(i.storeName, i.content)
  \/ \E i \in GetInputs : Get(i.storeName, i.primaryKeys)
  \/ \E i \in DeleteInputs : Delete(i.storeName, i.primaryKeys)
  \/ \E i \in DropInputs : DeleteObjectStore(i.storeName, i.type)

Spec == Init /\ [][Next]_vars


-----------------------------------------------------------------------------
(* Properties.  last is the call made last and what its caller observed.    *)

\* the identity of an entity of a store: extractUuid of its primary key value
identityIn(om, storeName, e) == extractUuid(Prop(e, MapGet(om, storeName).primaryKey))

\* no two entities of the content share an identity
distinctIdentities(om, storeName, content) ==
  \A i, j \in 1..Len(content) :
    i # j => identityIn(om, storeName, content[i]) # identityIn(om, storeName, content[j])

\* a get of the store and key that follows a persist that answered
readsBack(storeName, e) ==
  /\ last.op = "persist" /\ last.status = "ok" /\ last.storeName = storeName
  /\ distinctIdentities(optionsMap, storeName, last.input)
  /\ last'.op = "get" /\ last'.storeName = storeName
  /\ last'.input = identityIn(optionsMap, storeName, e)

\* C1: round trip.  A get of the identity of an entity, made after the
\* persist of that entity into the store answered, answers the entity as it
\* was persisted, without __pkey__ and __store__ at any depth; entities whose
\* linked property holds an array included.
C1_RoundTrip ==
  [][\A storeName \in {"Location", "Person", "Company"} :
       last.op = "persist" =>
         \A i \in 1..Len(last.input) :
           readsBack(storeName, last.input[i])
             => last'.status = "ok" /\ last'.value = cleanNested(last.input[i])]_vars

\* C1: the divergence reached: a get answers the Person persisted with the
\* two Locations in its linked array, and the array holds four
C1_ArrayDoubled ==
  /\ last.op = "get" /\ last.storeName = "Person" /\ last.status = "ok"
  /\ IsArray(Prop(last.value, "location"))
  /\ Len(Prop(last.value, "location").a) = 2 * Len(Prop(PerArr, "location").a)

\* the call made last wrote content into its store and answered
wroteContent == last.op \in {"persist", "post", "put"} /\ last.status = "ok"

\* the item is the last of the content with its identity
lastWritten(om, storeName, content, i) ==
  \A j \in (i + 1)..Len(content) :
    identityIn(om, storeName, content[j]) # identityIn(om, storeName, content[i])

\* C2: idempotence of identity, last write wins.  After a persist, add or
\* update of a store answered, the store holds under each identity written
\* one row, and the content of that row is the content of the last item
\* written with that identity, whether the identity was written before in the
\* same call or in an earlier one.
C2_LastWriteWins ==
  wroteContent =>
    \A i \in 1..Len(last.input) :
      lastWritten(optionsMap, last.storeName, last.input, i)
        => /\ identityIn(optionsMap, last.storeName, last.input[i])
                \in DOMAIN idb.stores[last.storeName].rows
           /\ cleanNested(idb.stores[last.storeName].rows[
                            identityIn(optionsMap, last.storeName, last.input[i])])
                = cleanNested(last.input[i])

\* C2: the divergence reached: a persist answered whose content names one
\* identity twice, and the row stored is not the last item of that identity
C2_FirstWriteKept ==
  /\ wroteContent /\ last.storeName = "Location" /\ last.input = <<Loc1, Loc1b>>
  /\ cleanNested(idb.stores["Location"].rows[identityIn(optionsMap, "Location", Loc1b)])
       = Loc1

\* the embedded copy carries the two tags of the entity it was made from
taggedAs(copy, storeName, id) ==
  /\ Prop(copy, storeKey) = Str(<<storeName>>)
  /\ Prop(copy, idKey) = id

\* the row of the parent and the rows of the linked store, for one entity
\* written whose property holds linked content
decomposed(stores, om, parentStore, property, linkStore, e) ==
  LET row == stores[parentStore].rows[identityIn(om, parentStore, e)]
      embedded == asArray(Prop(e, property))
      copies == asArray(Prop(row, property))
  IN /\ \A n \in 1..Len(embedded) :
          identityIn(om, linkStore, embedded[n]) \in DOMAIN stores[linkStore].rows
     /\ IsArray(Prop(row, property)) = IsArray(Prop(e, property))
     /\ Len(copies) = Len(embedded)
     /\ \A n \in 1..Len(embedded) :
          taggedAs(copies[n], linkStore, identityIn(om, linkStore, embedded[n]))

firstUuidOrRaw(v) ==
  IF v.k = "str" /\ \E i \in 1..Len(v.s) : v.s[i] \in UuidChunks
  THEN Str(<<v.s[CHOOSE i \in 1..Len(v.s) :
                   /\ v.s[i] \in UuidChunks
                   /\ \A j \in 1..(i - 1) : v.s[j] \notin UuidChunks]>>)
  ELSE v

\* the stores that exist and have options registered
registeredStores == {n \in objectStoreNames(idb.stores) : MapHas(optionsMap, n)}

\* the row is stored under, and tagged with, the identity of its primary key value
rowIdentity(storeName, key) ==
  LET row == idb.stores[storeName].rows[key]
      derived == firstUuidOrRaw(Prop(row, MapGet(optionsMap, storeName).primaryKey))
  IN key = derived /\ Prop(row, idKey) = derived

\* the copies embedded under the linked properties of the row, those that
\* carry the name of the linked store, are tagged with the identity of their
\* own primary key value (an object stored under the property while the link
\* was not registered is no copy of a linked entity and carries no tag)
copyIdentity(storeName, key) ==
  \A l \in SeqToSet(MapGetOr(linkMap, storeName, E)) :
    MapHas(optionsMap, l[2]) =>
      LET copies == asArray(Prop(idb.stores[storeName].rows[key], l[1]))
      IN \A n \in 1..Len(copies) :
           (copies[n].k = "obj" /\ Prop(copies[n], storeKey) = Str(<<l[2]>>)) =>
             Prop(copies[n], idKey)
               = firstUuidOrRaw(Prop(copies[n], MapGet(optionsMap, l[2]).primaryKey))

\* the keys given to a delete that answered name no row, by their identity
deletedByIdentity ==
  (last.op = "delete" /\ last.status = "ok") =>
    \A i \in 1..Len(last.input) :
      firstUuidOrRaw(last.input[i]) \notin DOMAIN idb.stores[last.storeName].rows

\* C4: identity derivation.  The __pkey__ of every stored row, and the key it
\* is stored under, is the first UUID-shaped part of the value of the primary
\* key property of the row when it has one, and that value otherwise; the
\* copies embedded in a row are tagged the same way, and the rows a delete
\* removes are those of the keys given, derived the same way.
C4_IdentityDerivation ==
  /\ \A n \in registeredStores : \A key \in DOMAIN idb.stores[n].rows :
       rowIdentity(n, key) /\ copyIdentity(n, key)
  /\ deletedByIdentity

\* C4: rows are stored under a UUID and under a raw value, a copy is tagged
\* with the first of the two UUIDs of its primary key value, and a delete
\* answered for a key
C4_Derived ==
  /\ last.op = "delete" /\ last.status = "ok" /\ last.storeName = "Person"
  /\ last.input = <<Str(<<"p1">>)>>
  /\ DOMAIN idb.stores["Person"].rows = {Str(<<"p2">>)}
  /\ Prop(Prop(idb.stores["Person"].rows[Str(<<"p2">>)], "location"), idKey) = Str(<<U1>>)
  /\ DOMAIN idb.stores["Location"].rows = {Str(<<"/api/locations/1">>), Str(<<U1>>)}

\* the two calls of the scenario: Loc1 is persisted into Location first, and
\* the Person p1 that embeds it is persisted next
scenarioPersisted ==
  /\ calls = 1 /\ last.op = "persist" /\ last.status = "ok"
  /\ last.storeName = "Location" /\ last.input = <<Loc1>>
  /\ last'.op = "persist" /\ last'.status = "ok"
  /\ last'.storeName = "Person" /\ last'.input = <<Per1>>

\* Location holds one row, of the identity given, and the location of the
\* row of p1 carries that identity and the store name
scenarioIdentity(stores, id) ==
  /\ DOMAIN stores["Location"].rows = {id}
  /\ Prop(stores["Location"].rows[id], idKey) = id
  /\ DOMAIN stores["Person"].rows = {Str(<<"p1">>)}
  /\ taggedAs(Prop(stores["Person"].rows[Str(<<"p1">>)], "location"), "Location", id)

\* C5 as the scenario states it: after the two calls the Location store has
\* one row, with __pkey__ "1", and the location of the row of p1 carries
\* __pkey__ "1" and __store__ "Location".
C5_ScenarioKeyOne ==
  [][scenarioPersisted => scenarioIdentity(idb'.stores, Str(<<"1">>))]_vars

\* C5, amended: after the two calls the Location store has one row, with
\* __pkey__ "/api/locations/1", the whole value of "@id", which holds no
\* UUID; the location of the row of p1 carries that __pkey__ and __store__
\* "Location".
C5_ScenarioRawKey ==
  [][scenarioPersisted => scenarioIdentity(idb'.stores, Str(<<"/api/locations/1">>))]_vars

\* C5: the state the two calls of the scenario end in
C5_ScenarioReached ==
  /\ calls = 2 /\ last.op = "persist" /\ last.status = "ok"
  /\ last.storeName = "Person" /\ last.input = <<Per1>>
  /\ MapKeys(storageMap) = <<"Location", "Person">>
  /\ scenarioIdentity(idb.stores, Str(<<"/api/locations/1">>))

\* the links <<store, property, linked store>> of the stores registered with
\* the cascade policy
cascadeLinks(policy) ==
  {t \in SeqToSet(linkTriples(linkMap)) :
     /\ MapHas(optionsMap, t[1]) /\ MapGet(optionsMap, t[1]).cascade = policy
     /\ t[1] \in objectStoreNames(idb.stores)}

\* the row embeds, under the property, the entity of the identity
embeds(row, property, id) ==
  \E n \in 1..Len(asArray(Prop(row, property))) :
    /\ asArray(Prop(row, property))[n].k = "obj"
    /\ Prop(asArray(Prop(row, property))[n], idKey) = id

\* some store is registered with a link to the store: it has an ancestor
hasAncestor(storeName) == \E t \in SeqToSet(linkTriples(linkMap)) : t[3] = storeName

\* the step is a delete of the linked store of t, and what it makes of every
\* row of the store of t that embedded an entity of a key given satisfies
\* after(row before, row after)
cascaded(t, after(_, _)) ==
  (last'.op = "delete" /\ last'.storeName = t[3]) =>
    \A i \in 1..Len(last'.input) : \A key \in DOMAIN idb.stores[t[1]].rows :
      embeds(idb.stores[t[1]].rows[key], t[2], extractUuid(last'.input[i]))
        => /\ last'.status = "ok"
           /\ after(idb.stores[t[1]].rows[key], idb'.stores[t[1]].rows[key])

\* C6: cascade DELETE.  Where a store is registered with cascade DELETE and a
\* linked property, a delete of rows of the linked store answers, and every
\* row of the store that embedded an entity deleted no longer has the
\* property, whether the store has an ancestor or not.
C6_CascadeDelete ==
  [][\A t \in cascadeLinks("DELETE") :
       cascaded(t, LAMBDA before, row : ~HasOwn(row, t[2]))]_vars

\* C6: the divergence reached: the delete of the Location of a Person that
\* is registered with cascade DELETE and has no ancestor faulted; the
\* Location is gone and the row of the Person still has its location
C6_DeleteFaulted ==
  /\ last.op = "delete" /\ last.storeName = "Location" /\ last.status = "fault"
  /\ ~hasAncestor("Person")
  /\ <<"Person", "location", "Location">> \in cascadeLinks("DELETE")
  /\ DOMAIN idb.stores["Location"].rows = {}
  /\ \E key \in DOMAIN idb.stores["Person"].rows :
       embeds(idb.stores["Person"].rows[key], "location", extractUuid(last.input[1]))

\* C7: cascade NULL.  Where a store is registered with cascade NULL and a
\* linked property, a delete of rows of the linked store answers, and every
\* row of the store that embedded an entity deleted still has the property,
\* stored as null.
C7_CascadeNull ==
  [][\A t \in cascadeLinks("NULL") :
       cascaded(t, LAMBDA before, row : HasOwn(row, t[2]) /\ row.o[t[2]] = Null)]_vars

\* C7: the divergence reached: the delete of the Location of a Person that
\* is registered with cascade NULL under a Company answered, and the row of
\* the Person holds undefined under location
C7_StoredUndefined ==
  /\ last.op = "delete" /\ last.storeName = "Location" /\ last.status = "ok"
  /\ <<"Person", "location", "Location">> \in cascadeLinks("NULL")
  /\ hasAncestor("Person")
  /\ \E key \in DOMAIN idb.stores["Person"].rows :
       /\ HasOwn(idb.stores["Person"].rows[key], "location")
       /\ idb.stores["Person"].rows[key].o["location"] = Undef

\* Person is registered with the linked property location and no cascade
personKeepsLocation == <<"Person", "location", "Location">> \in cascadeLinks("none")

\* the step is a delete of rows of Location that names a row it holds
deletesLocation ==
  /\ last'.op = "delete" /\ last'.storeName = "Location"
  /\ \E i \in 1..Len(last'.input) :
       extractUuid(last'.input[i]) \in DOMAIN idb.stores["Location"].rows

\* C8: cascade keep, the default.  Where Person is registered with the linked
\* property location and declares no cascade, a delete of rows of Location
\* answers with a result and without a fault, the rows of the keys given are
\* gone from Location, and every row of Person is as it was before.
C8_CascadeKeep ==
  [][(personKeepsLocation /\ deletesLocation) =>
       /\ last'.status = "ok"
       /\ \A i \in 1..Len(last'.input) :
            extractUuid(last'.input[i]) \notin DOMAIN idb'.stores["Location"].rows
       /\ idb'.stores["Person"].rows = idb.stores["Person"].rows]_vars

\* C8: the divergence reached: Location and Person are the stores, Person
\* declares no cascade, and the delete of the Location its row embeds faulted
\* after the row of Location was removed
C8_KeepFaulted ==
  /\ last.op = "delete" /\ last.storeName = "Location" /\ last.status = "fault"
  /\ personKeepsLocation /\ ~hasAncestor("Person")
  /\ extractUuid(last.input[1]) \notin DOMAIN idb.stores["Location"].rows
  /\ \E key \in DOMAIN idb.stores["Person"].rows :
       embeds(idb.stores["Person"].rows[key], "location", extractUuid(last.input[1]))

\* the paths under which the rows of other stores embed the store, as
\* <<store, path>>: the property of a store linked to it, and that property
\* under the property of a store linked to that store
embeddingPaths(lm, storeName) ==
  {<<t[1], <<t[2]>>>> : t \in {x \in SeqToSet(linkTriples(lm)) : x[3] = storeName}}
  \cup {<<u[1], <<u[2], t[2]>>>> :
          <<t, u>> \in {y \in SeqToSet(linkTriples(lm)) \X SeqToSet(linkTriples(lm)) :
                         y[1][3] = storeName /\ y[2][3] = y[1][1]}}

\* a key path of the index leads through the path
traverses(index, path) ==
  \E i \in 1..Len(index) :
    Len(index[i]) >= Len(path) /\ SubSeq(index[i], 1, Len(path)) = path

\* the registry names the store nowhere
absentFromRegistry(R, storeName) ==
  /\ ~MapHas(R.optionsMap, storeName)
  /\ \A i \in 1..Len(R.settings.options) : R.settings.options[i][1] # storeName
  /\ \A t \in SeqToSet(linkTriples(R.linkMap)) \cup SeqToSet(linkTriples(R.settings.links)) :
       t[1] # storeName /\ t[3] # storeName
  /\ MapGetOr(R.triggerMap, storeName, E) = E
  /\ \A i \in 1..Len(R.settings.triggers) : R.settings.triggers[i].storeName # storeName
  /\ ~MapHas(R.storageMap, storeName)

\* neither the engine nor the registry holds, for the store, an index or a
\* trigger that leads through the path
prunedOfPath(R, stores, storeName, path) ==
  /\ storeName \in objectStoreNames(stores)
       => \A index \in stores[storeName].indices : ~traverses(index, path)
  /\ \A index \in DOMAIN MapGetOr(R.storageMap, storeName, <<>>) : ~traverses(index, path)
  /\ \A i \in 1..Len(R.settings.triggers) :
       R.settings.triggers[i].storeName = storeName
         => ~traverses(R.settings.triggers[i].index, path)
  /\ \A i \in 1..Len(MapGetOr(R.triggerMap, storeName, E)) :
       ~traverses(MapGet(R.triggerMap, storeName)[i][2].index, path)

\* the step is the drop of a store that is registered and exists, and it
\* answered
dropsStore ==
  /\ last'.op = "deleteObjectStore" /\ last'.status = "ok"
  /\ MapHas(optionsMap, last'.storeName)
  /\ last'.storeName \in objectStoreNames(idb.stores)

\* C9: dropCollection.  After the drop of a store answered, the options, the
\* links (as source and as target), the triggers and the storage map of the
\* registry name the store no more, the engine has no store of that name, and
\* no index and no trigger of another store that leads through the property
\* embedding the store is left in the engine or in the registry, also where
\* that other store is a direct parent without an ancestor.
C9_DropCollection ==
  [][dropsStore =>
       /\ absentFromRegistry(Registry', last'.storeName)
       /\ last'.storeName \notin objectStoreNames(idb'.stores)
       /\ \A e \in embeddingPaths(linkMap, last'.storeName) :
            prunedOfPath(Registry', idb'.stores, e[1], e[2])]_vars

\* C9: the divergence reached: Location was dropped from under Person, which
\* has no ancestor, and the indices of Person on location.name are still in
\* the engine and in the storage map
C9_IndexLeft ==
  /\ last.op = "deleteObjectStore" /\ last.status = "ok" /\ last.storeName = "Location"
  /\ "Location" \notin objectStoreNames(idb.stores)
  /\ "Person" \in objectStoreNames(idb.stores) /\ ~hasAncestor("Person")
  /\ <<(<<"location", "name">>)>> \in idb.stores["Person"].indices
  /\ <<(<<"location", "name">>)>> \in DOMAIN MapGetOr(storageMap, "Person", <<>>)

\* the object of the row that holds the last property of the path
holderAt(row, path) == valueAt(row, SubSeq(path, 1, Len(path) - 1))

\* the cascade type is applied to the row at the path
appliedAt(row, path, type) ==
  CASE type = "DELETE" -> ~HasOwn(holderAt(row, path), path[Len(path)])
    [] type = "NULL" -> /\ HasOwn(holderAt(row, path), path[Len(path)])
                        /\ holderAt(row, path).o[path[Len(path)]] = Null
    [] type = "UNDEFINED" -> /\ HasOwn(holderAt(row, path), path[Len(path)])
                             /\ holderAt(row, path).o[path[Len(path)]] = Undef
    [] OTHER -> FALSE

\* what the drop makes of the rows of the store that embed under the path
dropCascaded(before, after, path, type) ==
  IF type = "KEEP" THEN after = before
  ELSE /\ DOMAIN after = DOMAIN before
       /\ \A key \in DOMAIN before :
            HasOwn(holderAt(before[key], path), path[Len(path)])
              => appliedAt(after[key], path, type)

\* C10: the cascade type of dropCollection.  The drop of a registered store
\* with the type DELETE, NULL or UNDEFINED answers and applies that type to
\* the embedding property of every row of every store that embeds the store
\* dropped, whatever cascade the options of those stores declare; with the
\* type KEEP it answers and the rows of those stores are what they were.
C10_DropCascadeType ==
  [][(/\ last'.op = "deleteObjectStore"
      /\ MapHas(optionsMap, last'.storeName)
      /\ last'.storeName \in objectStoreNames(idb.stores)) =>
       /\ last'.status = "ok"
       /\ \A e \in embeddingPaths(linkMap, last'.storeName) :
            e[1] \in objectStoreNames(idb.stores) =>
              /\ e[1] \in objectStoreNames(idb'.stores)
              /\ dropCascaded(idb.stores[e[1]].rows, idb'.stores[e[1]].rows, e[2],
                              last'.input)]_vars

\* C10: the divergence reached: Location was dropped with the type DELETE
\* from under a Person that declares no cascade, the drop answered, and the
\* row of the Person still has its location
C10_OwnCascadeUsed ==
  /\ last.op = "deleteObjectStore" /\ last.status = "ok" /\ last.storeName = "Location"
  /\ last.input = "DELETE"
  /\ MapHas(optionsMap, "Person") /\ MapGet(optionsMap, "Person").cascade = "none"
  /\ "Person" \in objectStoreNames(idb.stores)
  /\ \E key \in DOMAIN idb.stores["Person"].rows :
       Prop(idb.stores["Person"].rows[key], "location").k = "obj"

\* the keys of the rows that embed, at the end of the path, an entity of one
\* of the identities
affectedKeys(rows, path, ids) ==
  {key \in DOMAIN rows :
     \E id \in ids : embeds(holderAt(rows[key], path), path[Len(path)], id)}

\* the cascade type of a store: the one of its options, KEEP when none is given
ownCascade(storeName) ==
  IF MapGet(optionsMap, storeName).cascade = "none" THEN "KEEP"
  ELSE MapGet(optionsMap, storeName).cascade

\* C11: the results of deleteRows.  A delete that answers gives a record for
\* the store it was called for, listing the keys deleted, and for every store
\* that embeds that store, directly or through another store, a record with
\* the keys of its rows that embedded an entity deleted, the path of the
\* embedding and the cascade type applied.
C11_DeleteResults ==
  [][(last'.op = "delete" /\ last'.status = "ok") =>
       /\ \E r \in SeqToSet(last'.value) :
            /\ r.storeName = last'.storeName
            /\ r.primaryKeys = [i \in 1..Len(last'.input) |-> extractUuid(last'.input[i])]
       /\ \A e \in embeddingPaths(linkMap, last'.storeName) :
            e[1] \in objectStoreNames(idb.stores) =>
              \E r \in SeqToSet(last'.value) :
                /\ r.storeName = e[1]
                /\ r.path = e[2]
                /\ r.type = ownCascade(e[1])
                /\ SeqToSet(r.primaryKeys)
                     = affectedKeys(idb.stores[e[1]].rows, e[2],
                                    {extractUuid(last'.input[i]) : i \in 1..Len(last'.input)})]_vars

\* C11: the divergence reached: a delete of a Location that Person and
\* Company embed answered with the records of Person and Company, and with
\* no record of Location
C11_TargetMissing ==
  /\ last.op = "delete" /\ last.status = "ok" /\ last.storeName = "Location"
  /\ \A r \in SeqToSet(last.value) : r.storeName # "Location"
  /\ {r.storeName : r \in SeqToSet(last.value)} = {"Person", "Company"}
  /\ "/api/locations/1" \notin {k.s[1] : k \in DOMAIN idb.stores["Location"].rows}


\* the copies of entities of the store that the rows of the embedding store
\* hold at the path, as <<key of the row, copy>>
copiesAt(stores, embedding, path) ==
  {<<key, asArray(valueAt(stores[embedding].rows[key], path))[n]>> :
     <<key, n>> \in {x \in (DOMAIN stores[embedding].rows) \X (1..2) :
                      /\ x[2] <= Len(asArray(valueAt(stores[embedding].rows[x[1]], path)))
                      /\ asArray(valueAt(stores[embedding].rows[x[1]], path))[x[2]].k = "obj"}}

\* no row of a store that embeds the store holds a copy of the entity of the
\* identity that differs from the row of the entity
noStaleCopy(stores, lm, storeName, id) ==
  \A e \in embeddingPaths(lm, storeName) :
    e[1] \in objectStoreNames(stores) =>
      \A c \in copiesAt(stores, e[1], e[2]) :
        Prop(c[2], idKey) = id
          => /\ taggedAs(c[2], storeName, id)
             /\ cleanNested(c[2]) = cleanNested(stores[storeName].rows[id])

\* a persist that stores content answered
persistedRows ==
  /\ last.op = "persist" /\ last.status = "ok"
  /\ MapGet(optionsMap, last.storeName).storeContent # "false"

\* C12: persist re-links ancestors.  After a persist answered that wrote an
\* entity of a store, no row of a store that embeds that store, directly or
\* through another store, holds a copy of that entity that differs from the
\* entity written: the copy is the row of the entity, tagged.
C12_PersistRelinks ==
  persistedRows =>
    \A i \in 1..Len(last.input) :
      noStaleCopy(idb.stores, linkMap, last.storeName,
                  identityIn(optionsMap, last.storeName, last.input[i]))

\* C12: the divergence reached: a persist into Location rewrote the entity
\* that the row of the Person p2 embeds, and the row of p2 holds the copy of
\* before
C12_StaleCopy ==
  /\ persistedRows /\ last.storeName = "Location" /\ last.input = <<LocU, LocUx>>
  /\ Prop(idb.stores["Location"].rows[Str(<<U1>>)], "name") = Str(<<"Hall">>)
  /\ "Person" \in objectStoreNames(idb.stores)
  /\ Str(<<"p2">>) \in DOMAIN idb.stores["Person"].rows
  /\ Prop(Prop(idb.stores["Person"].rows[Str(<<"p2">>)], "location"), "name") = Str(<<"Room">>)
  /\ Prop(Prop(idb.stores["Person"].rows[Str(<<"p2">>)], "location"), idKey) = Str(<<U1>>)

\* the step is an add or an update of entities of a registered store, each
\* with a primary key value, while no store has a unique index to reject a row
relinkStep ==
  /\ last'.op \in {"post", "put"}
  /\ MapHas(optionsMap, last'.storeName)
  /\ \A i \in 1..Len(last'.input) :
       Truthy(identityIn(optionsMap, last'.storeName, last'.input[i]))
  /\ \A n \in objectStoreNames(idb.stores) : idb.stores[n].unique = {}

\* every row of the store of t that embedded the entity of the identity under
\* the property of t holds after the step the row of the entity, tagged
relinked(t, id) ==
  \A key \in DOMAIN idb.stores[t[1]].rows :
    embeds(idb.stores[t[1]].rows[key], t[2], id) =>
      /\ key \in DOMAIN idb'.stores[t[1]].rows
      /\ \A n \in 1..Len(asArray(Prop(idb'.stores[t[1]].rows[key], t[2]))) :
           LET copy == asArray(Prop(idb'.stores[t[1]].rows[key], t[2]))[n]
           IN Prop(copy, idKey) = id
                => /\ taggedAs(copy, t[3], id)
                   /\ cleanNested(copy) = cleanNested(idb'.stores[t[3]].rows[id])

\* C13: add and update re-link every embedding row.  An add or an update of
\* entities of a store answers, whether no row, one row or several rows of
\* the stores linked to it embed the entity, and after it every row that
\* embedded the entity under the linked property holds the entity written,
\* tagged with __pkey__ and __store__.
C13_RelinksEveryRow ==
  [][relinkStep =>
       /\ last'.status = "ok"
       /\ \A t \in SeqToSet(linkTriples(linkMap)) :
            (t[3] = last'.storeName /\ t[1] \in objectStoreNames(idb.stores)) =>
              \A i \in 1..Len(last'.input) :
                relinked(t, identityIn(optionsMap, last'.storeName, last'.input[i]))]_vars

\* C13: the divergence reached: two Persons embedded the Location; the update
\* of the Location answered, the row of the first holds the Location written
\* and the row of the second the copy of before
C13_OneOfManyRelinked ==
  /\ last.op = "put" /\ last.status = "ok" /\ last.storeName = "Location"
  /\ last.input = <<Loc1b>>
  /\ "Person" \in objectStoreNames(idb.stores)
  /\ DOMAIN idb.stores["Person"].rows = {Str(<<"p1">>), Str(<<"p2">>)}
  /\ cleanNested(Prop(idb.stores["Person"].rows[Str(<<"p1">>)], "location")) = Loc1b
  /\ cleanNested(Prop(idb.stores["Person"].rows[Str(<<"p2">>)], "location")) = Loc1


\* the entities of the target store in the items of a store: the items
\* themselves, and those embedded under the linked properties, at any depth
RECURSIVE entitiesOfStore(_, _, _, _)
entitiesOfStore(lm, storeName, items, target) ==
  (IF storeName = target THEN items ELSE {})
    \cup UNION {entitiesOfStore(lm, l[2],
                  {x \in UNION {SeqToSet(asArray(Prop(item, l[1]))) : item \in items} :
                     x.k = "obj"},
                  target) : l \in SeqToSet(MapGetOr(lm, storeName, E))}

\* the identities of the entities of the store in the content of the call
identitiesOf(om, lm, storeName, content, target) ==
  {identityIn(om, target, e) : e \in entitiesOfStore(lm, storeName, SeqToSet(content), target)}

\* the stores the content of the call holds entities of
touchedStores(om, lm, storeName, content) ==
  {n \in MapKeySet(om) : entitiesOfStore(lm, storeName, SeqToSet(content), n) # {}}

\* the rows of every store are what they were, or none where the store is new
\* or made anew
noRowWritten ==
  \A n \in objectStoreNames(idb'.stores) :
    \/ idb'.stores[n].rows = NoRows
    \/ n \in objectStoreNames(idb.stores) /\ idb'.stores[n].rows = idb.stores[n].rows

\* C14: the summaries of persist.  A persist that answers gives one summary
\* for every store its content holds entities of; unless storeContent is
\* false, the rows of a summary is the number of rows the call committed to
\* the store, also when storeContent is not given; when storeContent is false
\* the rows of every summary is 0 and no row is written.
C14_PersistSummary ==
  [][(last'.op = "persist" /\ last'.status = "ok") =>
       /\ {r.storeName : r \in SeqToSet(last'.value)}
            = touchedStores(optionsMap', linkMap', last'.storeName, last'.input)
       /\ Len(last'.value)
            = Cardinality(touchedStores(optionsMap', linkMap', last'.storeName, last'.input))
       /\ IF MapGet(optionsMap', last'.storeName).storeContent = "false"
          THEN noRowWritten /\ \A r \in SeqToSet(last'.value) : r.rows = 0
          ELSE \A r \in SeqToSet(last'.value) :
                 /\ identitiesOf(optionsMap', linkMap', last'.storeName, last'.input,
                                 r.storeName) \subseteq DOMAIN idb'.stores[r.storeName].rows
                 /\ r.rows = Cardinality(identitiesOf(optionsMap', linkMap', last'.storeName,
                                                      last'.input, r.storeName))]_vars

\* C14: the divergence reached: a persist without storeContent answered; the
\* row is stored and the summary counts no row
C14_DefaultCountsZero ==
  /\ last.op = "persist" /\ last.status = "ok" /\ last.storeName = "Location"
  /\ last.input = <<Loc1>>
  /\ MapGet(optionsMap, "Location").storeContent = "undef"
  /\ DOMAIN idb.stores["Location"].rows = {Str(<<"/api/locations/1">>)}
  /\ Len(last.value) = 1 /\ last.value[1].storeName = "Location" /\ last.value[1].rows = 0

\* with storeContent true the summary counts the row stored
C14_StoredCountsOne ==
  /\ last.op = "persist" /\ last.status = "ok" /\ last.input = <<Loc1>>
  /\ MapGet(optionsMap, "Location").storeContent = "true"
  /\ DOMAIN idb.stores["Location"].rows = {Str(<<"/api/locations/1">>)}
  /\ last.value[1].rows = 1

\* with storeContent false the summary counts no row and no row is stored
C14_StructureOnly ==
  /\ last.op = "persist" /\ last.status = "ok" /\ last.input = <<Loc1>>
  /\ MapGet(optionsMap, "Location").storeContent = "false"
  /\ idb.stores["Location"].rows = NoRows
  /\ last.value[1].rows = 0

\* the write queue of the persist made last: the stores and their entities
lastQueue == createQueueMap(Registry, MapGet(optionsMap, last.storeName), last.input)

\* the identities of the entities queued for a store
queuedIdentities(storeName) ==
  {identityIn(optionsMap, storeName, MapGet(lastQueue, storeName)[i]) :
     i \in 1..Len(MapGet(lastQueue, storeName))}

\* C15: one entity per identity.  The write queue of a persist holds, for
\* every store, at most one entity of an identity (the primary key value after
\* the extraction of the UUID), and no summary answered counts more rows than
\* the store has identities queued.
C15_OnePerIdentity ==
  last.op = "persist" =>
    /\ \A n \in MapKeySet(lastQueue) :
         Cardinality(queuedIdentities(n)) = Len(MapGet(lastQueue, n))
    /\ last.status = "ok" =>
         \A r \in SeqToSet(last.value) : r.rows <= Cardinality(queuedIdentities(r.storeName))

\* C15: the divergence reached: the two entities of a persist hold the same
\* UUID in different "@id" strings; both are queued, the summary counts two
\* rows and the store holds the one row of the UUID
C15_SameUuidTwice ==
  /\ last.op = "persist" /\ last.status = "ok" /\ last.input = <<LocU, LocUx>>
  /\ Len(MapGet(lastQueue, "Location")) = 2
  /\ queuedIdentities("Location") = {Str(<<U1>>)}
  /\ last.value[1].rows = 2
  /\ DOMAIN idb.stores["Location"].rows = {Str(<<U1>>)}

\* the entity is the last one of its identity among the entities
lastOfIdentity(storeName, items, i) ==
  \A j \in (i + 1)..Len(items) :
    identityIn(optionsMap, storeName, items[j]) # identityIn(optionsMap, storeName, items[i])

\* the write of the entity was rejected by a unique index of the store: the
\* row of its identity does not hold its value under the key path of the
\* index, and a row of another identity holds that value
rejectedWrite(store, id, item) ==
  \E n \in store.unique :
    /\ valueAt(item, n[1]).k = "str"
    /\ id \in DOMAIN store.rows => valueAt(store.rows[id], n[1]) # valueAt(item, n[1])
    /\ \E key \in DOMAIN store.rows \ {id} :
         valueAt(store.rows[key], n[1]) = valueAt(item, n[1])

\* the entities of the call made last whose write was rejected
rejectedWrites(storeName) ==
  {i \in 1..Len(last.input) :
     /\ lastOfIdentity(storeName, last.input, i)
     /\ rejectedWrite(idb.stores[storeName],
                      identityIn(optionsMap, storeName, last.input[i]), last.input[i])}

\* C16: write faults are surfaced.  A persist, post or put in which the
\* write of a row was rejected by the storage engine fails, with a store
\* error that names the store; it does not answer.
C16_WriteFaultsSurfaced ==
  (/\ last.op \in {"persist", "post", "put"}
   /\ MapHas(optionsMap, last.storeName)
   /\ last.storeName \in objectStoreNames(idb.stores)
   /\ rejectedWrites(last.storeName) # {})
    => /\ last.status = "fault"
       /\ last.error.name \in {"IndexedDBAddError", "IndexedDBStoreError"}
       /\ last.error.storeName = last.storeName

\* C16: the divergence reached: the name of the second of three locations
\* is held by the first under a unique index; its put is rejected, and the
\* persist answers its summary with the first and third location stored
C16_RejectedAnswersOk ==
  /\ last.op = "persist" /\ last.input = <<Loc1, LocT, LocU>>
  /\ last.status = "ok" /\ last.error = NoError
  /\ rejectedWrites("Location") = {2}
  /\ DOMAIN idb.stores["Location"].rows = {Str(<<"/api/locations/1">>), Str(<<U1>>)}

\* C16: the divergence reached with the rejected put last: the call neither
\* answers nor fails
C16_RejectedNeverAnswers ==
  /\ last.op = "post" /\ last.input = <<LocT>>
  /\ last.status = "hang"
  /\ "Location" \in objectStoreNames(idb.stores)
  /\ rejectedWrites("Location") = {1}

\* the write of the entity fails: its key is no valid key, or a unique index
\* of the store after the call rejects it
failedWrite(om, stores, storeName, items, i) ==
  \/ identityIn(om, storeName, items[i]).k # "str"
  \/ /\ lastWritten(om, storeName, items, i)
     /\ rejectedWrite(stores[storeName], identityIn(om, storeName, items[i]), items[i])

\* the entities written before the first write that fails, each the last of
\* its identity among them, are the rows of their identities
earlierStored(om, stores, storeName, items, i) ==
  \A j \in 1..(i - 1) :
    lastWritten(om, storeName, SubSeq(items, 1, i - 1), j) =>
      /\ identityIn(om, storeName, items[j]) \in DOMAIN stores[storeName].rows
      /\ removeGeneratedIdKeyFromContent(
           <<stores[storeName].rows[identityIn(om, storeName, items[j])]>>) = <<items[j]>>

\* no store embeds the store: a put of it reads no parent before it writes
noParentOf(storeName) ==
  getParentLinkForStore(createParentLinkMap(Registry, storeName), storeName) = E

lacksPrimaryKey(om, storeName, content) ==
  \E i \in 1..Len(content) : ~Truthy(Prop(content[i], MapGet(om, storeName).primaryKey))

\* C18: the fault of a missing primary key.  A persist, post or put whose
\* content holds an entity with no value (none, or the empty string) under the
\* primary key of the store fails with NoPrimaryKeyInObjectError of the store
\* and the key, and writes no row.
C18_MissingKeyFault ==
  [][(/\ calls' = calls + 1
      /\ last'.op \in {"persist", "post", "put"}
      /\ MapHas(optionsMap', last'.storeName)
      /\ lacksPrimaryKey(optionsMap', last'.storeName, last'.input))
       => /\ last'.status = "fault"
          /\ last'.error = NoPrimaryKeyInObjectError(
                             last'.storeName,
                             MapGet(optionsMap', last'.storeName).primaryKey)
          /\ noRowWritten]_vars

\* C18: the divergence reached: the second entity of a persist has no "@id";
\* the call fails with the exception of the engine, and the first entity is
\* stored
C18_PersistWritesBeforeFault ==
  /\ last.op = "persist" /\ last.input = <<Loc1, LocNoKey>>
  /\ lacksPrimaryKey(optionsMap, "Location", last.input)
  /\ last.status = "fault" /\ last.error = Thrown
  /\ "Location" \in objectStoreNames(idb.stores)
  /\ Str(<<"/api/locations/1">>) \in DOMAIN idb.stores["Location"].rows

\* C18: reached as stated: a post of an entity with no "@id" fails with
\* NoPrimaryKeyInObjectError
C18_PostFaultsAsStated ==
  /\ last.op = "post" /\ last.input = <<LocNoKey>>
  /\ last.status = "fault"
  /\ last.error = NoPrimaryKeyInObjectError("Location", "@id")

\* the settings, the maps of options, links, triggers and storage, and what
\* localStorage holds, are what they were
registryUnchanged ==
  UNCHANGED <<settings, optionsMap, linkMap, triggerMap, storageMap, local>>

\* C19: the fault of a store that is not registered.  A get, post, put or
\* delete that names a store with no options registered fails with
\* NoPrimaryKeyInSettingsError of that store, and changes no row and nothing
\* of the registry.
C19_UnregisteredFault ==
  [][(/\ calls' = calls + 1
      /\ last'.op \in {"get", "post", "put", "delete"}
      /\ ~MapHas(optionsMap, last'.storeName))
       => /\ last'.status = "fault"
          /\ last'.error = NoPrimaryKeyInSettingsError(last'.storeName)
          /\ idb' = idb
          /\ registryUnchanged]_vars

\* C19: the divergence reached: a delete that names a store with no options
\* registered fails with the exception of the engine, which names no store
C19_DeleteThrows ==
  /\ last.op = "delete" /\ last.storeName = "Person"
  /\ ~MapHas(optionsMap, "Person")
  /\ last.status = "fault" /\ last.error = Thrown

\* C19: the same for a get
C19_GetThrows ==
  /\ last.op = "get" /\ last.storeName = "Person"
  /\ ~MapHas(optionsMap, "Person")
  /\ last.status = "fault" /\ last.error = Thrown

\* C19: reached as stated: a post that names a store with no options
\* registered fails with NoPrimaryKeyInSettingsError
C19_PostFaultsAsStated ==
  /\ last.op = "post" /\ last.storeName = "Person"
  /\ ~MapHas(optionsMap, "Person")
  /\ last.status = "fault" /\ last.error = NoPrimaryKeyInSettingsError("Person")

C20_OpenedAtVersion == handle => idb.version = settings.version

-----------------------------------------------------------------------------
(* The life of the service: a reload of the page constructs the service     *)
(* anew from the two sidecar entries; deleteDatabase removes them.          *)

\* the settings of setPersistenceSettings where the sidecar holds none
NoSettings ==
  [version |-> 0, options |-> E, links |-> E,
   mutations |-> [update |-> E, remove |-> E, indices |-> E], triggers |-> E]

\* the fields of a service before its constructor runs, over the sidecar
constructed(loc) ==
  [settings |-> NoSettings, optionsMap |-> E, linkMap |-> E, triggerMap |-> E,
   storageMap |-> E, local |-> loc]

\* setDatabaseSettings: the storage map is read where the sidecar holds one
setDatabaseSettings(R) ==
  IF R.local.storage = E THEN R ELSE [R EXCEPT !.storageMap = R.local.storage[1]]

\* setPersistenceSettings: the settings and the three maps made of them, or
\* the empty ones where the sidecar holds no settings; the storage map is
\* left as it is
setPersistenceSettings(R) ==
  IF R.local.settings = E
  THEN [R EXCEPT !.settings = NoSettings, !.linkMap = E, !.optionsMap = E,
                 !.triggerMap = E]
  ELSE writeSettings(
         [R EXCEPT !.settings = R.local.settings[1],
                   !.optionsMap = R.local.settings[1].options,
                   !.linkMap = convertSettingsLinksToLinkMap(R.local.settings[1]),
                   !.triggerMap =
                     convertSettingsTriggersToTriggerMap(R.local.settings[1].triggers)])

\* reInitialize: R is the registry after the two reads, and the database is
\* opened where the storage map holds a store
reInitialize(R, db) ==
  IF R.storageMap = E \/ openFails(R, db)
  THEN [R |-> R, db |-> db, handle |-> FALSE]
  ELSE [R |-> initializeDatabase(R, db).R, db |-> initializeDatabase(R, db).db,
        handle |-> TRUE]

\* deleteDatabase: the database and the two sidecar entries are removed, and
\* setPersistenceSettings finds no settings
deleteDatabase(R) ==
  setPersistenceSettings([R EXCEPT !.local = [settings |-> E, storage |-> E]])

\* the page is loaded anew: the constructor of the service
Reload ==
  /\ calls < MaxCalls
  /\ LET done == reInitialize(setPersistenceSettings(setDatabaseSettings(constructed(local))),
                              idb)
     IN /\ SetRegistry(done.R)
        /\ idb' = done.db
        /\ handle' = done.handle
  /\ counterMap' = E
  /\ last' = [op |-> "reload", storeName |-> "", input |-> E, status |-> "ok",
              value |-> E, error |-> NoError]
  /\ calls' = calls + 1

DeleteDatabase ==
  /\ calls < MaxCalls
  /\ SetRegistry(deleteDatabase(Registry))
  /\ idb' = [version |-> 0, stores |-> NoStores]
  /\ handle' = FALSE
  /\ last' = [op |-> "deleteDatabase", storeName |-> "", input |-> E, status |-> "ok",
              value |-> E, error |-> NoError]
  /\ calls' = calls + 1
  /\ UNCHANGED counterMap

\* the calls, and reloads between them
NextReload ==
  \/ Next
  \/ Reload

SpecReload == Init /\ [][NextReload]_vars

\* the calls, reloads, and deleteDatabase
NextLife ==
  \/ NextReload
  \/ DeleteDatabase

SpecLife == Init /\ [][NextLife]_vars

\* what the registry holds, without the order of the maps: the links as
\* triples, the triggers, the key maps of the stores, and the primary key,
\* unique keys and cascade of the options
linkGraph(lm) == SeqToSet(linkTriples(lm))
triggerSet(tm) == SeqToSet(convertTriggerMapToSettingsTriggers(tm))
indexMaps(sm) == SeqToSet(sm)
optionsHeld(om) ==
  {<<om[i][1], om[i][2].primaryKey, om[i][2].uniqueKeys, om[i][2].cascade>> :
     i \in 1..Len(om)}

C21_ReloadedTrigger ==
  /\ last.op = "reload"
  /\ triggerSet(triggerMap) # {}

\* the stores the content of the persist made last is queued for: the store
\* of the call and those it links to
persistedStores == MapKeySet(lastQueue)

\* C22: deleteDatabase leaves nothing.  After deleteDatabase the sidecar
\* holds no entry and the service holds what a service constructed on an
\* empty sidecar holds: the settings of version 0, no options, no links, no
\* triggers and no key map of a store; and the persist that follows it makes
\* the stores of its own content only.
C22_DeleteDatabaseWipes ==
  [][/\ (calls' = calls + 1 /\ last'.op = "deleteDatabase") =>
          /\ local' = [settings |-> E, storage |-> E]
          /\ settings' = NoSettings
          /\ optionsMap' = E /\ linkMap' = E /\ triggerMap' = E
          /\ storageMap' = E
          /\ idb' = [version |-> 0, stores |-> NoStores]
     /\ (calls' = calls + 1 /\ last.op = "deleteDatabase" /\ last'.op = "persist") =>
          objectStoreNames(idb'.stores) \subseteq
            MapKeySet(createQueueMap(Registry', MapGet(optionsMap', last'.storeName),
                                     last'.input))]_vars

\* C22: the divergence reached: deleteDatabase was called after the persist
\* of a person; the service still holds the key maps of Person and Location
C22_StorageMapKept ==
  /\ last.op = "deleteDatabase"
  /\ local = [settings |-> E, storage |-> E]
  /\ settings = NoSettings /\ optionsMap = E
  /\ MapKeySet(storageMap) = {"Location", "Person"}

\* C22: and the persist of a location that follows makes the store Person
\* again, which has no options
C22_StoreReappears ==
  /\ last.op = "persist" /\ last.storeName = "Location" /\ last.status = "ok"
  /\ calls = 3
  /\ persistedStores = {"Location"}
  /\ "Person" \in objectStoreNames(idb.stores)
  /\ ~MapHas(optionsMap, "Person")
  /\ settings.version = 1

-----------------------------------------------------------------------------
(* TtPersistenceRetrieveService: pagination and sorting; the UUID of a URL  *)

\* RetrieveByPageOptions: given is FALSE where the call has none; pagination
\* is "true", "false" or "undef"
PageOptions(page, pageSize, pagination) ==
  [given |-> TRUE, page |-> page, pageSize |-> pageSize, pagination |-> pagination]
NoPageOptions == [given |-> FALSE, page |-> 0, pageSize |-> 0, pagination |-> "undef"]

\* content.slice(start, end), for start >= 0
slice(content, start, end) ==
  SubSeq(content, start + 1, IF end < Len(content) THEN end ELSE Len(content))

\* a variant that counts the pages from 0
paginateContentFromZero(content, options) ==
  IF ~options.given \/ options.pagination = "false" \/ Len(content) <= options.pageSize
  THEN content
  ELSE slice(content, options.page * options.pageSize,
             options.page * options.pageSize + options.pageSize)

paginateContent(content, options) ==
  LET start == IF options.given THEN (options.page - 1) * options.pageSize ELSE -1
      end == IF options.given THEN start + options.pageSize ELSE 0
  IN IF options.given /\ options.pagination = "false" THEN content
     ELSE IF start >= 0
     THEN IF Len(content) <= options.pageSize THEN content
          ELSE slice(content, start, end)
     ELSE content

\* RetrieveBySortingOptions: column is the dot-notated path as a sequence, E
\* where none is given; direction is "asc", "desc" or "undef"
SortOptions(column, direction) == [column |-> column, direction |-> direction]

\* the strings the model compares, in the order of <
StringOrder == <<"Hall", "Lost", "Other", "Room", "Test">>

\* a < b of JavaScript, for the values the rows hold under a column
lessThan(a, b) ==
  /\ a.k = "str" /\ b.k = "str" /\ Len(a.s) = 1 /\ Len(b.s) = 1
  /\ \E i, j \in 1..Len(StringOrder) :
       i < j /\ StringOrder[i] = a.s[1] /\ StringOrder[j] = b.s[1]

\* getComparisonValue: the value under the path; the item where the path
\* leads nowhere
RECURSIVE getComparisonValue(_, _)
getComparisonValue(item, path) ==
  IF path = E \/ ~HasOwn(item, Head(path)) THEN item
  ELSE IF Len(path) > 1 /\ item.o[Head(path)].k = "obj"
  THEN getComparisonValue(item.o[Head(path)], Tail(path))
  ELSE IF Len(path) > 1 /\ IsArray(item.o[Head(path)])
  THEN LET nested == item.o[Head(path)].a
           matches == SelectSeq([n \in 1..Len(nested) |->
                                   getComparisonValue(nested[n], Tail(path))], Truthy)
       IN IF matches # E THEN matches[1] ELSE item
  ELSE IF Len(path) = 1 THEN item.o[Head(path)]
  ELSE item

\* compare(a, b, ascending)
compare(a, b, ascending) ==
  (IF lessThan(a, b) THEN -1 ELSE 1) * (IF ascending THEN 1 ELSE -1)

\* the permutations of the content
permutationsOf(content) ==
  {[i \in 1..Len(content) |-> content[p[i]]] :
     p \in {q \in [1..Len(content) -> 1..Len(content)] :
              \A i, j \in 1..Len(content) : i # j => q[i] # q[j]}}

\* what content.sort(comparator) may answer: a permutation in which no item
\* stands before an item the comparator puts strictly before it.  The
\* comparator never answers 0, so the order of items of one value is left
\* to the engine.
sorted(content, column, ascending) ==
  {r \in permutationsOf(content) :
     \A i, j \in 1..Len(r) :
       i < j =>
         ~(/\ compare(getComparisonValue(r[j], column),
                      getComparisonValue(r[i], column), ascending) < 0
           /\ compare(getComparisonValue(r[i], column),
                      getComparisonValue(r[j], column), ascending) > 0)}

\* a variant that takes a direction that is not given for ascending
sortContentAscending(content, options) ==
  IF options.column = E THEN {content}
  ELSE sorted(content, options.column, options.direction # "desc")

\* sortContent: the contents it may answer (the counter is set by the action)
sortContent(content, options) ==
  IF options.column = E THEN {content}
  ELSE sorted(content, options.column, options.direction = "asc")

\* every match of String(url).match(uuidRegExp): the expression has no g
\* flag, so the array holds the first match alone; at an index with no
\* match the array answers undefined
matchAt(url, index) ==
  IF index + 1 <= Len(uuidMatches(url)) THEN uuidMatches(url)[index + 1] ELSE Undef

\* extractPrimaryKey(url, index, exact): index is -1 where it is not given
extractPrimaryKey(url, index, exact) ==
  IF index = -1 THEN extractUuid(url)
  ELSE IF exact
  THEN (IF matchAt(url, index).k = "undef" THEN Str(E) ELSE matchAt(url, index))
  ELSE matchAt(url, index)

-----------------------------------------------------------------------------
(* The functions above on their own: the arguments are drawn at the start,  *)
(* and a step applies the function to them.                                 *)

MaxRows == 5
MaxPage == 4
MaxPageSize == 3

\* rows of five names
RowPool == <<Loc1, LocU, LocUx, Loc1b, LocNoKey>>

\* content of n rows
rowsOf(n) == [i \in 1..n |-> RowPool[((i - 1) % Len(RowPool)) + 1]]

PaginateInputs ==
  {[fn |-> "paginateContent", content |-> rowsOf(n),
    options |-> PageOptions(k, s, g)] :
     n \in 0..MaxRows, k \in 1..MaxPage, s \in 1..MaxPageSize,
     g \in {"true", "false", "undef"}}
  \cup {[fn |-> "paginateContent", content |-> rowsOf(n),
         options |-> NoPageOptions] : n \in 0..MaxRows}

SortInputs ==
  {[fn |-> "sortContent", content |-> c, options |-> SortOptions(col, d)] :
     c \in {E, <<Loc1>>, <<Loc1, LocU, LocUx>>, <<LocUx, LocU, Loc1>>, <<LocU, Loc1b, LocUx>>,
            <<Loc1, LocT, LocUx>>},
     col \in {E, <<"name">>}, d \in {"asc", "desc", "undef"}}
  \cup {[fn |-> "sortContent", content |-> c,
         options |-> SortOptions(<<"location", "name">>, d)] :
          c \in {<<Per1, Per2>>, <<Per2, Per1>>, <<PerArr, Per2>>},
          d \in {"asc", "desc", "undef"}}

Urls ==
  {Str(<<"my-domain.com/api/v8/location/", U1, "/people/", U2>>),
   Str(<<"my-domain.com/api/v8/location/", U2, "/people/", U1>>),
   Str(<<"my-domain.com/api/v8/people/", U2>>),
   Str(<<"my-domain.com/api/v8/people">>)}

ExtractInputs ==
  {[fn |-> "extractPrimaryKey", url |-> u, index |-> i, exact |-> x] :
     u \in Urls, i \in {-1, 0, 1}, x \in BOOLEAN}

InitPure ==
  /\ settings = NoSettings
  /\ optionsMap = E /\ linkMap = E /\ triggerMap = E /\ storageMap = E /\ counterMap = E
  /\ local = [settings |-> E, storage |-> E]
  /\ idb = [version |-> 0, stores |-> NoStores]
  /\ handle = FALSE
  /\ last \in {[op |-> "none", storeName |-> "", input |-> i, status |-> "ok",
                value |-> E, error |-> NoError] :
                 i \in PaginateInputs \cup SortInputs \cup ExtractInputs}
  /\ calls = 0

PaginateContent ==
  /\ last.op = "none" /\ last.input.fn = "paginateContent"
  /\ last' = [last EXCEPT !.op = "paginateContent",
                          !.value = paginateContent(last.input.content, last.input.options)]
  /\ calls' = calls + 1
  /\ UNCHANGED <<settings, optionsMap, linkMap, triggerMap, storageMap, counterMap, local,
                 idb, handle>>

\* sortContent of a store named "Location"
SortContent ==
  /\ last.op = "none" /\ last.input.fn = "sortContent"
  /\ counterMap' = MapSet(counterMap, "Location", Len(last.input.content))
  /\ \E r \in sortContent(last.input.content, last.input.options) :
       last' = [last EXCEPT !.op = "sortContent", !.storeName = "Location", !.value = r]
  /\ calls' = calls + 1
  /\ UNCHANGED <<settings, optionsMap, linkMap, triggerMap, storageMap, local, idb, handle>>

ExtractPrimaryKey ==
  /\ last.op = "none" /\ last.input.fn = "extractPrimaryKey"
  /\ last' = [last EXCEPT !.op = "extractPrimaryKey",
                          !.value = extractPrimaryKey(last.input.url, last.input.index,
                                                      last.input.exact)]
  /\ calls' = calls + 1
  /\ UNCHANGED <<settings, optionsMap, linkMap, triggerMap, storageMap, counterMap, local,
                 idb, handle>>

NextPure ==
  \/ PaginateContent
  \/ SortContent
  \/ ExtractPrimaryKey

SpecPure == InitPure /\ [][NextPure]_vars

\* the elements of the content at the positions from to to - 1, counted from 0
positions(content, from, to) == [i \in 1..(to - from) |-> content[from + i]]

\* the smaller of two numbers
min(a, b) == IF a < b THEN a ELSE b

\* the pages of n rows with p rows a page
pageCount(n, p) == (n + p - 1) \div p

orderedBy(r, column, ascending) ==
  \A i, j \in 1..Len(r) :
    i < j =>
      IF ascending
      THEN ~lessThan(getComparisonValue(r[j], column), getComparisonValue(r[i], column))
      ELSE ~lessThan(getComparisonValue(r[i], column), getComparisonValue(r[j], column))

\* C24: sorting.  For content and a sort column, sortContent answers a
\* permutation of the content ordered by the value under the column's path:
\* ascending when the direction is 'asc' and when no direction is given,
\* descending when the direction is 'desc'.
C24_DefaultAscending ==
  (last.op = "sortContent" /\ last.input.options.column # E) =>
    /\ last.value \in permutationsOf(last.input.content)
    /\ orderedBy(last.value, last.input.options.column,
                 last.input.options.direction # "desc")

\* C24: reached: a column without a direction answers the rows by name from
\* Test down to Hall
C24_NoDirectionDescends ==
  /\ last.op = "sortContent"
  /\ last.input.options = SortOptions(<<"name">>, "undef")
  /\ last.input.content = <<LocUx, LocU, Loc1>>
  /\ last.value = <<Loc1, LocU, LocUx>>

\* C24: what the code does: ascending for 'asc' alone, descending otherwise
C24_AscendingOnlyWhenAsked ==
  (last.op = "sortContent" /\ last.input.options.column # E) =>
    /\ last.value \in permutationsOf(last.input.content)
    /\ orderedBy(last.value, last.input.options.column,
                 last.input.options.direction = "asc")

-----------------------------------------------------------------------------
(* The reads of a whole store: get with page options, trigger, search,      *)
(* filter and find.                                                         *)

\* getContentByStore: store.getAll(), the rows in the order of their keys;
\* database.transaction throws where the store does not exist
getContentByStore(stores, storeName) ==
  IF storeName \notin objectStoreNames(stores) THEN Answer("fault", E)
  ELSE LET keys == sortedKeys(stores[storeName].rows)
       IN Answer("ok", [i \in 1..Len(keys) |-> stores[storeName].rows[keys[i]]])

\* the search terms, and the terms that String(chunk).toLowerCase() includes
Terms == {"test", "o"}
termsIn(chunk) ==
  CASE chunk = "Test" -> {"test"}
    [] chunk \in {"Other", "Lost", "Room", "/api/locations/1", "/api/locations/", "/api/rooms/",
                  "/rooms/", "[object Object]"} -> {"o"}
    [] OTHER -> {}

\* String(result)
String(result) ==
  CASE result.k = "str" -> result.s
    [] result.k = "obj" -> <<"[object Object]">>
    [] result.k = "arr" -> [i \in 1..Len(result.a) |-> "[object Object]"]
    [] result.k = "null" -> <<"null">>
    [] OTHER -> <<"undefined">>

checkResultForSearchTerm(result, searchTerm) ==
  \E i \in 1..Len(String(result)) : searchTerm \in termsIn(String(result)[i])

\* traverseItemPath of the retrieve service
RECURSIVE searchTraverseItemPath(_, _, _)
searchTraverseItemPath(item, path, term) ==
  IF path = E \/ ~HasOwn(item, Head(path)) THEN FALSE
  ELSE IF Len(path) > 1 /\ item.o[Head(path)].k = "obj"
  THEN searchTraverseItemPath(item.o[Head(path)], Tail(path), term)
  ELSE IF Len(path) > 1 /\ IsArray(item.o[Head(path)])
  THEN \E n \in 1..Len(item.o[Head(path)].a) :
         searchTraverseItemPath(item.o[Head(path)].a[n], Tail(path), term)
  ELSE IF Len(path) = 1 THEN checkResultForSearchTerm(item.o[Head(path)], term)
  ELSE FALSE

\* RetrieveBySearchOptions
SearchOptions(index, term) == [index |-> index, term |-> term]

\* the callbacks of filter and find: by name
Callbacks == {"isTest", "always", "never"}
callback(cb, item) ==
  CASE cb = "isTest" -> Prop(item, "name") = Str(<<"Test">>)
    [] cb = "always" -> TRUE
    [] OTHER -> FALSE

\* matchSearchTermToContent and matchCallbackToContent, before the pagination
matchedBySearch(content, searchOptions) ==
  SelectSeq(content, LAMBDA item : searchTraverseItemPath(item, searchOptions.index, searchOptions.term))
matchedByCallback(content, cb) == SelectSeq(content, LAMBDA item : callback(cb, item))

\* content.find(callback)
find(content, cb) ==
  IF matchedByCallback(content, cb) = E THEN Undef ELSE matchedByCallback(content, cb)[1]

\* removeGeneratedIdKeyFromContent of one item: Object.assign({}, undefined)
\* is the empty object
cleanOne(item) == IF item.k = "obj" THEN cleanNested(item) ELSE Obj(<<>>)

\* getValueForRule of a rule with a parameter: the value, parsed by
\* extractPrimaryKey where the rule has primaryKey
getValueForRule(rule, value) == IF rule.primaryKey THEN extractUuid(value) ELSE value

\* store.index(trigger.index).getAll(IDBKeyRange.bound(start, start)), for a
\* trigger of one rule
indexGetAll(store, trigger, start) ==
  LET keys == SelectSeq(sortedKeys(store.rows),
                        LAMBDA k : valueAt(store.rows[k], trigger.keyPath[1]) = start)
  IN [i \in 1..Len(keys) |-> store.rows[keys[i]]]

\* the rows getContentByTrigger reads, before they are sorted and paginated
getContentByTrigger(stores, storeName, trigger, start) ==
  IF \/ storeName \notin objectStoreNames(stores)
     \/ trigger.index \notin stores[storeName].indices
  THEN Answer("fault", E)
  ELSE Answer("ok", indexGetAll(stores[storeName], trigger, start))

ReadOptions ==
  {[page |-> p, sort |-> s] :
     p \in {NoPageOptions, PageOptions(1, 1, "undef"), PageOptions(2, 1, "undef")},
     s \in {SortOptions(E, "undef"), SortOptions(<<"name">>, "asc")}}

GetPageInputs ==
  {[storeName |-> n, options |-> o] : n \in {"Location", "Person"}, o \in ReadOptions}

SearchInputs ==
  {[storeName |-> "Location", search |-> SearchOptions(<<"name">>, t), options |-> o] :
     t \in Terms, o \in ReadOptions}
  \cup {[storeName |-> "Person", search |-> SearchOptions(<<"location", "name">>, "test"),
         options |-> o] : o \in ReadOptions}

FilterInputs ==
  {[storeName |-> "Location", callback |-> cb, options |-> o] :
     cb \in Callbacks, o \in ReadOptions}

FindInputs ==
  {[storeName |-> n, callback |-> cb] : n \in {"Location", "Person"}, cb \in Callbacks}

TriggerInputs ==
  {[storeName |-> "Person", triggerName |-> "byLocation", value |-> Str(v), options |-> o] :
     v \in {<<"/api/locations/1">>, <<"/api/locations/", U1, "/rooms/", U2>>},
     o \in ReadOptions}
  \cup {[storeName |-> "Location", triggerName |-> "byLocation",
         value |-> Str(<<"/api/locations/1">>),
         options |-> [page |-> NoPageOptions, sort |-> SortOptions(E, "undef")]]}

\* what a read leaves alone
readOnly == UNCHANGED <<settings, optionsMap, linkMap, triggerMap, storageMap, local, idb, handle>>

\* get(storeName, pageOptions, sortOptions)
GetPage(storeName, options) ==
  /\ calls < MaxCalls
  /\ handle
  /\ LET content == getContentByStore(idb.stores, storeName)
     IN IF content.status # "ok"
        THEN /\ counterMap' = MapSet(counterMap, storeName, 0)
             /\ last' = [op |-> "getPage", storeName |-> storeName, input |-> options,
                         status |-> "fault", value |-> E, error |-> Thrown]
        ELSE /\ counterMap' = MapSet(counterMap, storeName, Len(content.value))
             /\ \E r \in sortContent(content.value, options.sort) :
                  last' = [op |-> "getPage", storeName |-> storeName, input |-> options,
                           status |-> "ok",
                           value |-> removeGeneratedIdKeyFromContent(
                                       paginateContent(r, options.page)),
                           error |-> NoError]
  /\ calls' = calls + 1
  /\ readOnly

\* search(storeName, searchOptions, pageOptions, sortOptions)
Search(storeName, searchOptions, options) ==
  /\ calls < MaxCalls
  /\ handle
  /\ LET content == getContentByStore(idb.stores, storeName)
     IN IF content.status # "ok"
        THEN /\ UNCHANGED counterMap
             /\ last' = [op |-> "search", storeName |-> storeName,
                         input |-> [search |-> searchOptions, options |-> options],
                         status |-> "fault", value |-> E, error |-> Thrown]
        ELSE /\ counterMap' = MapSet(counterMap, storeName, Len(content.value))
             /\ \E r \in sortContent(content.value, options.sort) :
                  last' = [op |-> "search", storeName |-> storeName,
                           input |-> [search |-> searchOptions, options |-> options],
                           status |-> "ok",
                           value |-> removeGeneratedIdKeyFromContent(
                                       paginateContent(matchedBySearch(r, searchOptions),
                                                       options.page)),
                           error |-> NoError]
  /\ calls' = calls + 1
  /\ readOnly

\* filter(storeName, callback, httpRequest, pageOptions, sortOptions)
Filter(storeName, cb, options) ==
  /\ calls < MaxCalls
  /\ handle
  /\ LET content == getContentByStore(idb.stores, storeName)
     IN IF content.status # "ok"
        THEN /\ UNCHANGED counterMap
             /\ last' = [op |-> "filter", storeName |-> storeName,
                         input |-> [callback |-> cb, options |-> options],
                         status |-> "fault", value |-> E, error |-> Thrown]
        ELSE /\ counterMap' = MapSet(counterMap, storeName, Len(content.value))
             /\ \E r \in sortContent(content.value, options.sort) :
                  last' = [op |-> "filter", storeName |-> storeName,
                           input |-> [callback |-> cb, options |-> options],
                           status |-> "ok",
                           value |-> removeGeneratedIdKeyFromContent(
                                       paginateContent(matchedByCallback(r, cb), options.page)),
                           error |-> NoError]
  /\ calls' = calls + 1
  /\ readOnly

\* find(storeName, callback)
Find(storeName, cb) ==
  /\ calls < MaxCalls
  /\ handle
  /\ LET content == getContentByStore(idb.stores, storeName)
     IN IF content.status # "ok"
        THEN /\ UNCHANGED counterMap
             /\ last' = [op |-> "find", storeName |-> storeName, input |-> cb,
                         status |-> "fault", value |-> Undef, error |-> Thrown]
        ELSE /\ counterMap' = MapSet(counterMap, storeName, Len(content.value))
             /\ last' = [op |-> "find", storeName |-> storeName, input |-> cb,
                         status |-> "ok", value |-> cleanOne(find(content.value, cb)),
                         error |-> NoError]
  /\ calls' = calls + 1
  /\ readOnly

\* trigger(storeName, triggerName, request, sortOptions, pageOptions), for a
\* trigger of one rule whose value the request holds in a parameter
Trigger(storeName, triggerName, value, options) ==
  /\ calls < MaxCalls
  /\ handle
  /\ LET triggers == MapGetOr(triggerMap, storeName, E)
         input == [triggerName |-> triggerName, value |-> value, options |-> options]
     IN IF ~MapHas(triggers, triggerName)
        THEN /\ counterMap' = MapSet(counterMap, storeName, 0)
             /\ last' = [op |-> "trigger", storeName |-> storeName, input |-> input,
                         status |-> "fault", value |-> E,
                         error |-> [name |-> "TriggerNotFoundError", storeName |-> storeName,
                                    key |-> triggerName]]
        ELSE LET trigger == MapGet(triggers, triggerName)
                 content == getContentByTrigger(idb.stores, storeName, trigger,
                                                getValueForRule(trigger.rules[1], value))
             IN IF content.status # "ok"
                THEN /\ counterMap' = MapSet(counterMap, storeName, 0)
                     /\ last' = [op |-> "trigger", storeName |-> storeName, input |-> input,
                                 status |-> "fault", value |-> E, error |-> Thrown]
                ELSE /\ counterMap' = MapSet(counterMap, storeName, Len(content.value))
                     /\ \E r \in sortContent(content.value, options.sort) :
                          last' = [op |-> "trigger", storeName |-> storeName, input |-> input,
                                   status |-> "ok",
                                   value |-> removeGeneratedIdKeyFromContent(
                                               paginateContent(r, options.page)),
                                   error |-> NoError]
  /\ calls' = calls + 1
  /\ readOnly

NextRead ==
  \/ Next
  \/ \E i \in GetPageInputs : GetPage(i.storeName, i.options)
  \/ \E i \in SearchInputs : Search(i.storeName, i.search, i.options)
  \/ \E i \in FilterInputs : Filter(i.storeName, i.callback, i.options)
  \/ \E i \in FindInputs : Find(i.storeName, i.callback)
  \/ \E i \in TriggerInputs : Trigger(i.storeName, i.triggerName, i.value, i.options)

SpecRead == Init /\ [][NextRead]_vars

\* getCounter(storeName)
getCounter(cm, storeName) == MapGetOr(cm, storeName, 0)

\* the reads of a whole store that answered
wholeStoreReads == {"getPage", "trigger", "search", "filter"}

\* the number of rows the read that was made last matched, before pagination
matchedByLast(l, stores) ==
  LET rows == getContentByStore(stores, l.storeName).value
  IN CASE l.op = "getPage" -> Len(rows)
       [] l.op = "search" -> Len(matchedBySearch(rows, l.input.search))
       [] l.op = "filter" -> Len(matchedByCallback(rows, l.input.callback))
       [] OTHER -> Len(SelectSeq(rows, LAMBDA row :
                         valueAt(row, <<"location", idKey>>) = extractUuid(l.input.value)))

\* C25: result counter.  After a scan, trigger, search or filter read of a
\* store has answered, getCounter of the store is the number of rows the
\* call matched before the pagination (for search and filter the matches,
\* not the rows of the store), 0 where nothing was found; and the counter of
\* no other store changes.
C25_CounterIsMatched ==
  [][(last'.op \in wholeStoreReads /\ last'.status = "ok") =>
       /\ getCounter(counterMap', last'.storeName) = matchedByLast(last', idb.stores)
       /\ \A n \in {"Location", "Person", "Company"} \ {last'.storeName} :
            getCounter(counterMap', n) = getCounter(counterMap, n)]_vars

\* C25: reached: a search of two Locations for "test" answers the one match
\* and leaves the counter at 2
C25_SearchCountsStore ==
  /\ last.op = "search" /\ last.status = "ok"
  /\ last.input.options.page = NoPageOptions
  /\ Len(last.value) = 1
  /\ getCounter(counterMap, last.storeName) = 2

\* C25: what the code does: the counter of a search or filter is the number
\* of rows of the store; that of a scan or trigger is as stated
C25_CounterAsCoded ==
  [][(last'.op \in wholeStoreReads /\ last'.status = "ok") =>
       /\ getCounter(counterMap', last'.storeName) =
            IF last'.op \in {"search", "filter"}
            THEN Len(getContentByStore(idb.stores, last'.storeName).value)
            ELSE matchedByLast(last', idb.stores)
       /\ \A n \in {"Location", "Person", "Company"} \ {last'.storeName} :
            getCounter(counterMap', n) = getCounter(counterMap, n)]_vars

\* the value holds one of the two tags at some depth
RECURSIVE tagged(_)
tagged(v) ==
  CASE v.k = "obj" -> \/ idKey \in DOMAIN v.o
                      \/ storeKey \in DOMAIN v.o
                      \/ \E p \in DOMAIN v.o : tagged(v.o[p])
    [] v.k = "arr" -> \E i \in 1..Len(v.a) : tagged(v.a[i])
    [] OTHER -> FALSE

\* the calls that answer entities, and the entities of the answer made last
entityCalls == {"post", "put", "get", "getPage", "trigger", "search", "filter", "find"}
answered ==
  IF last.op \in {"get", "find"} THEN <<last.value>>
  ELSE IF last.op \in {"post", "put"} THEN last.value.a
  ELSE last.value

\* C26: no tag leaks.  No value that post, put, get (by key or by page),
\* trigger, search, filter or find answers holds __pkey__ or __store__ at
\* any depth, in objects or in arrays, while every stored row keeps its
\* __pkey__.
C26_NoTagLeaks ==
  /\ (last.op \in entityCalls /\ last.status = "ok") =>
       \A i \in 1..Len(answered) : ~tagged(answered[i])
  /\ \A n \in objectStoreNames(idb.stores) : \A key \in DOMAIN idb.stores[n].rows :
       idKey \in DOMAIN idb.stores[n].rows[key].o

\* C26: reached: a read by page answers a Person with its Location, and the
\* row it was read from holds the tags in the Person and in the Location
C26_NestedTagsRemoved ==
  /\ last.op = "getPage" /\ last.status = "ok" /\ last.storeName = "Person"
  /\ \E i \in 1..Len(last.value) : HasOwn(last.value[i], "location")
  /\ \E key \in DOMAIN idb.stores["Person"].rows :
       /\ tagged(Prop(idb.stores["Person"].rows[key], "location"))
       /\ cleanNested(idb.stores["Person"].rows[key]) \in SeqToSet(last.value)

\* the rows of the store D of the identities the value embeds: of an object
\* the row, of an array the rows, each as a get of D answers it
currentRows(R, stores, D, embedded) ==
  IF IsArray(embedded)
  THEN Arr([j \in 1..Len(embedded.a) |-> get(R, stores, D, Prop(embedded.a[j], idKey)).value])
  ELSE get(R, stores, D, Prop(embedded, idKey)).value

\* the row of the store that get reads under the key
rowRead(stores, storeName, key) == stores[storeName].rows[key]

\* C27: read re-attachment.  A get by key answers the entity of the key, and
\* under every linked property p of its store, pointing to D, the answer
\* holds the current row of D of the embedded identity, itself re-attached,
\* and not the copy the row embeds.
C27_ReadReattaches ==
  (last.op = "get" /\ last.status = "ok") =>
    \A i \in 1..Len(MapGetOr(linkMap, last.storeName, E)) :
      LET p == MapGet(linkMap, last.storeName)[i][1]
          D == MapGet(linkMap, last.storeName)[i][2]
          embedded == Prop(rowRead(idb.stores, last.storeName, last.input), p)
      IN (embedded.k \in {"obj", "arr"}) =>
           Prop(last.value, p) = currentRows(Registry, idb.stores, D, embedded)

\* C27: the same, for the linked properties that hold one entity
C27_ObjectsReattached ==
  (last.op = "get" /\ last.status = "ok") =>
    \A i \in 1..Len(MapGetOr(linkMap, last.storeName, E)) :
      LET p == MapGet(linkMap, last.storeName)[i][1]
          D == MapGet(linkMap, last.storeName)[i][2]
          embedded == Prop(rowRead(idb.stores, last.storeName, last.input), p)
      IN (embedded.k = "obj") =>
           Prop(last.value, p) = currentRows(Registry, idb.stores, D, embedded)

\* C27: reached: a Person stored with an array of two Locations is answered
\* with four: the two copies of the row and the two rows read for them
C27_ArrayDoubled ==
  /\ last.op = "get" /\ last.status = "ok" /\ last.storeName = "Person"
  /\ IsArray(Prop(rowRead(idb.stores, "Person", last.input), "location"))
  /\ Len(Prop(rowRead(idb.stores, "Person", last.input), "location").a) = 2
  /\ Len(Prop(last.value, "location").a) = 4

\* C27: reached: a Person is answered with the Location as it is stored now,
\* which is not the copy in the Person's row
C27_CurrentRowAnswered ==
  /\ last.op = "get" /\ last.status = "ok" /\ last.storeName = "Person"
  /\ Prop(rowRead(idb.stores, "Person", last.input), "location").k = "obj"
  /\ Prop(last.value, "location") #
       cleanNested(Prop(rowRead(idb.stores, "Person", last.input), "location"))

-----------------------------------------------------------------------------
(* The steps of insertLinkedItemsInStores: the requests of one insertion in *)
(* the order they are made, each settled by the engine in that order.  last *)
(* holds the queue (input) and, in value, the transaction and its requests. *)

\* a variant that subscribes to the inserts of every entry at once
entriesPutAtOnce(entries) == entries

\* createBatchInsertObservable subscribes to the insert of entries[0]; the
\* inserts of entries.slice(1) are operators that wait for what precedes them
entriesPutAtSubscribe(entries) == SubSeq(entries, 1, 1)

\* the requests the loop of createQueueObservable makes for a store: a
\* store.put for every item up to a key that is no valid key, for which
\* store.put throws
putRequests(R, transaction, storeName, content) ==
  LET parsed == queueItems(R, storeName, content)
  IN [j \in 1..Len(validPrefix(parsed)) |->
        [storeName |-> storeName, item |-> parsed[j], state |-> "pending",
         final |-> j = Len(parsed), transaction |-> transaction]]

\* store.put throws for an item of the store
putThrows(R, storeName, content) ==
  \/ ~MapHas(R.optionsMap, storeName)
  \/ Len(validPrefix(queueItems(R, storeName, content))) < Len(content)

\* the requests of the entries, store after store, up to one that throws
RECURSIVE requestsOf(_, _, _)
requestsOf(R, transaction, entries) ==
  IF entries = E THEN E
  ELSE IF ~MapHas(R.optionsMap, entries[1][1]) THEN E
  ELSE putRequests(R, transaction, entries[1][1], entries[1][2])
         \o (IF putThrows(R, entries[1][1], entries[1][2]) THEN E
             ELSE requestsOf(R, transaction, Tail(entries)))

someThrows(R, entries) == \E i \in 1..Len(entries) : putThrows(R, entries[i][1], entries[i][2])

\* the registry and the database persist has made when it inserts the queue
openedFor(options, content) ==
  LET R1 == updatePersistenceSettings(constructed([settings |-> E, storage |-> E]), options)
  IN [R1 |-> R1, linkedItems |-> parseContentForLinking(R1, options.storeName, content, E)]

openedWith(R1, linkedItems) ==
  LET o == initializeDatabase(updateStorageSettings(R1, linkedItems),
                              [version |-> 0, stores |-> NoStores])
  IN [R |-> o.R, db |-> o.db, linkedItems |-> linkedItems]

BatchInputs ==
  {i \in PersistInputs : i.options.storeContent # "false"}
  \cup {[options |-> o, content |-> rowsOf(n)] :
          o \in {LocationOptions, LocationUnique}, n \in 3..MaxRows}

InitBatch ==
  \E i \in BatchInputs :
    LET f == openedFor(i.options, i.content)
        o == openedWith(f.R1, f.linkedItems)
    IN /\ settings = o.R.settings
       /\ optionsMap = o.R.optionsMap
       /\ linkMap = o.R.linkMap
       /\ triggerMap = o.R.triggerMap
       /\ storageMap = o.R.storageMap
       /\ local = o.R.local
       /\ counterMap = E
       /\ idb = o.db
       /\ handle = TRUE
       /\ last = [op |-> "none", storeName |-> i.options.storeName, input |-> o.linkedItems,
                  status |-> "pending", value |-> [transaction |-> {}, at |-> 0, requests |-> E],
                  error |-> NoError]
       /\ calls = 0

batchOnly == UNCHANGED <<settings, optionsMap, linkMap, triggerMap, storageMap, counterMap,
                         local, handle, calls>>

\* insertLinkedItemsInStores: the transaction of the stores of the queue and
\* the subscription to the first insert
InsertLinkedItemsInStores ==
  /\ last.op = "none"
  /\ IF last.input = E \/ ~(MapKeySet(last.input) \subseteq objectStoreNames(idb.stores))
     THEN last' = [last EXCEPT !.op = "insertLinkedItemsInStores", !.status = "fault",
                               !.error = Thrown]
     ELSE last' = [last EXCEPT
            !.op = "insertLinkedItemsInStores",
            !.status = IF someThrows(Registry, entriesPutAtSubscribe(last.input))
                       THEN "fault" ELSE "pending",
            !.error = IF someThrows(Registry, entriesPutAtSubscribe(last.input))
                      THEN Thrown ELSE NoError,
            !.value = [transaction |-> MapKeySet(last.input), at |-> 1,
                       requests |-> requestsOf(Registry, MapKeySet(last.input),
                                               entriesPutAtSubscribe(last.input))]]
  /\ UNCHANGED idb
  /\ batchOnly

\* the request the engine settles next: the first one that is pending
nextRequest(requests) ==
  CHOOSE n \in 1..Len(requests) :
    /\ requests[n].state = "pending"
    /\ \A m \in 1..(n - 1) : requests[m].state # "pending"

somePending(requests) == \E n \in 1..Len(requests) : requests[n].state = "pending"

\* the success of a request: the row is in the store; the success handler of
\* the last request of a store answers the rows of the store, on which the
\* insert of the entry that follows is subscribed to, or the call answers
RequestSucceeds ==
  /\ last.op = "insertLinkedItemsInStores"
  /\ somePending(last.value.requests)
  /\ LET n == nextRequest(last.value.requests)
         request == last.value.requests[n]
         settled == [last.value.requests EXCEPT ![n].state = "success"]
         answers == request.final /\ last.status = "pending"
         following == IF last.value.at < Len(last.input)
                      THEN <<last.input[last.value.at + 1]>> ELSE E
     IN /\ ~violatesUnique(idb.stores[request.storeName], request.item)
        /\ idb' = [idb EXCEPT !.stores[request.storeName] = putAll(@, <<request.item>>)]
        /\ last' =
             IF ~answers THEN [last EXCEPT !.value.requests = settled]
             ELSE IF following = E THEN [last EXCEPT !.value.requests = settled, !.status = "ok"]
             ELSE [last EXCEPT
                     !.value.requests =
                        settled \o requestsOf(Registry, last.value.transaction, following),
                     !.value.at = @ + 1,
                     !.status = IF someThrows(Registry, following) THEN "fault" ELSE "pending",
                     !.error = IF someThrows(Registry, following) THEN Thrown ELSE NoError]
  /\ batchOnly

\* the error of a request: the handler keeps the transaction from aborting
\* and notes the error; nothing is answered
RequestFails ==
  /\ last.op = "insertLinkedItemsInStores"
  /\ somePending(last.value.requests)
  /\ LET n == nextRequest(last.value.requests)
         request == last.value.requests[n]
     IN /\ violatesUnique(idb.stores[request.storeName], request.item)
        /\ last' = [last EXCEPT !.value.requests[n].state = "error"]
  /\ UNCHANGED idb
  /\ batchOnly

NextBatch ==
  \/ InsertLinkedItemsInStores
  \/ RequestSucceeds
  \/ RequestFails

SpecBatch == InitBatch /\ [][NextBatch]_vars

\* the place of the store in the queue
queuePlace(queue, storeName) == CHOOSE p \in 1..Len(queue) : queue[p][1] = storeName

\* the requests made so far
requestsMade(l) == IF l.op = "none" THEN E ELSE l.value.requests

\* C28: sequential store-by-store commit.  Within one insertion the stores of
\* the queue are written one at a time in the order of the queue: a request
\* for the store at place p + 1 is made when the last request of the store
\* at place p has succeeded, and after no request of a later store; and every
\* request is made in the one transaction that spans the stores of the queue.
C28_StoreByStore ==
  [][\A j \in (Len(requestsMade(last)) + 1)..Len(requestsMade(last')) :
       LET made == requestsMade(last')
           p == queuePlace(last'.input, made[j].storeName)
       IN /\ made[j].transaction = MapKeySet(last'.input)
          /\ \A k \in 1..(j - 1) : queuePlace(last'.input, made[k].storeName) <= p
          /\ p > 1 =>
               \E k \in 1..(j - 1) :
                 /\ made[k].storeName = last'.input[p - 1][1]
                 /\ made[k].final
                 /\ made[k].state = "success"]_vars

\* C28: reached: the insertion of a queue of three stores has answered, every
\* request has succeeded and the requests stand store by store
C28_ThreeStoresWritten ==
  /\ last.op = "insertLinkedItemsInStores" /\ last.status = "ok"
  /\ Len(last.input) = 3
  /\ Len(last.value.requests) >= 3
  /\ \A n \in 1..Len(last.value.requests) : last.value.requests[n].state = "success"
  /\ last.value.at = 3

\* the UUIDs that occur in the url, in their order
uuidsOf(url) == SelectSeq(url.s, LAMBDA chunk : chunk \in UuidChunks)

\* C29: UUID position in a URL.  extractPrimaryKey with the filter index i
\* answers the UUID that occurs in the URL at place i + 1: the first for
\* index 0, the second for index 1.
C29_UuidAtIndex ==
  (/\ last.op = "extractPrimaryKey"
   /\ last.input.index >= 0
   /\ last.input.index < Len(uuidsOf(last.input.url))) =>
     last.value = Str(<<uuidsOf(last.input.url)[last.input.index + 1]>>)

\* C29: reached: for the URL of the readme, with two UUIDs, and index 1 the
\* function answers undefined, for which getPrimaryKeyFromUrl throws
C29_SecondUuidUndefined ==
  /\ last.op = "extractPrimaryKey"
  /\ last.input.url = Str(<<"my-domain.com/api/v8/location/", U1, "/people/", U2>>)
  /\ last.input.index = 1 /\ ~last.input.exact
  /\ last.value = Undef

\* C29: what the code does: the first UUID for index 0 and for no index
C29_FirstUuidOnly ==
  (/\ last.op = "extractPrimaryKey"
   /\ last.input.index <= 0
   /\ uuidsOf(last.input.url) # E) =>
     last.value = Str(<<uuidsOf(last.input.url)[1]>>)

-----------------------------------------------------------------------------
(* A Location embedded by more than one parent: by a Person under two       *)
(* properties, by a Person and a Site, and by a Company next to its owner.  *)

PersonTwo(cascade) ==
  Options("Person", "id", cascade, "undef", E,
          <<(<<"location", LocationOptions>>), (<<"home", LocationOptions>>)>>)
SiteOptions(cascade) ==
  Options("Site", "id", cascade, "undef", E, <<(<<"place", LocationOptions>>)>>)
CompanyTwo(cascade) ==
  Options("Company", "id", cascade, "undef", E,
          <<(<<"owner", PersonOptions(cascade, E)>>), (<<"office", LocationOptions>>)>>)

Per1H == Obj(("id" :> Str(<<"p1">>)) @@ ("location" :> Loc1) @@ ("home" :> Loc1))
Site1 == Obj(("id" :> Str(<<"c1">>)) @@ ("place" :> Loc1))
Com1O == Obj(("id" :> Str(<<"c1">>)) @@ ("owner" :> Per1) @@ ("office" :> Loc1))

ParentCascades == {"none", "DELETE"}

ParentPersistInputs ==
  {[options |-> PersonTwo(c), content |-> <<Per1H>>] : c \in ParentCascades}
  \cup {[options |-> SiteOptions(c), content |-> <<Site1>>] : c \in ParentCascades}
  \cup {[options |-> PersonOptions(c, E), content |-> <<Per1>>] : c \in ParentCascades}
  \cup {[options |-> CompanyTwo(c), content |-> <<Com1O>>] : c \in ParentCascades}

ParentPutInputs == {[storeName |-> "Location", content |-> <<Loc1b>>]}
ParentPostInputs == {[storeName |-> "Location", content |-> <<Loc1b>>]}
ParentDeleteInputs ==
  {[storeName |-> "Location", primaryKeys |-> <<Str(<<"/api/locations/1">>)>>]}
ParentGetInputs ==
  {[storeName |-> n, primaryKeys |-> Str(<<k>>)] : n \in {"Person", "Site", "Company"},
                                                   k \in {"p1", "c1"}}

NextParents ==
  \/ \E i \in ParentPersistInputs : Persist(i.content, i.options)
  \/ \E i \in ParentPostInputs : Post(i.storeName, i.content)
  \/ \E i \in ParentPutInputs : Put(i.storeName, i.content)
  \/ \E i \in ParentGetInputs : Get(i.storeName, i.primaryKeys)
  \/ \E i \in ParentDeleteInputs : Delete(i.storeName, i.primaryKeys)

SpecParents == Init /\ [][NextParents]_vars

\* the pairs <<parent, property>> of the LinkMap that point to the store
embeddings(lm, storeName) ==
  {<<t[1], t[2]>> : t \in {u \in SeqToSet(linkTriples(lm)) : u[3] = storeName}}

\* the rows of the parent that embed the identity under the property
embeddingRows(stores, parent, property, id) ==
  IF parent \notin objectStoreNames(stores) THEN {}
  ELSE {row \in {stores[parent].rows[key] : key \in DOMAIN stores[parent].rows} :
          /\ Prop(row, property).k = "obj"
          /\ Prop(Prop(row, property), idKey) = id}

\* C30: multiple parents.  Where a store is embedded by two parents, or by
\* one parent under two properties, a put or post of an entity of the store
\* re-links the copy in every row of every parent that embeds it under any
\* of the properties, and a delete of its keys applies the cascade in every
\* one of them.
C30_EveryParentRelinked ==
  /\ (last.op \in {"put", "post"} /\ last.status = "ok" /\ last.storeName = "Location") =>
       \A e \in embeddings(linkMap, "Location") : \A i \in 1..Len(last.input) :
         \A row \in embeddingRows(idb.stores, e[1], e[2],
                                  extractUuid(Prop(last.input[i], "@id"))) :
           cleanNested(Prop(row, e[2])) = last.input[i]
  /\ (last.op = "delete" /\ last.status = "ok" /\ last.storeName = "Location") =>
       \A e \in embeddings(linkMap, "Location") : \A i \in 1..Len(last.input) :
         (MapHas(optionsMap, e[1]) /\ MapGet(optionsMap, e[1]).cascade = "DELETE") =>
           embeddingRows(idb.stores, e[1], e[2], extractUuid(last.input[i])) = {}

\* C30: reached: the Location is put with a new name; the Person that embeds
\* it under two properties holds the new name under one of them and the
\* name of write time under the other
C30_OnePropertyStale ==
  /\ last.op = "put" /\ last.status = "ok" /\ last.storeName = "Location"
  /\ Cardinality(embeddings(linkMap, "Location")) >= 2
  /\ "Person" \in objectStoreNames(idb.stores)
  /\ \E key \in DOMAIN idb.stores["Person"].rows :
       LET row == idb.stores["Person"].rows[key]
       IN /\ cleanNested(Prop(row, "home")) = Loc1b
          /\ cleanNested(Prop(row, "location")) = Loc1

\* C30: the same holds where one parent embeds the store under one property
C30_OneParentRelinked ==
  Cardinality(embeddings(linkMap, "Location")) = 1 => C30_EveryParentRelinked

\* C30: reached: the Location is put with a new name; the Site that embeds it
\* holds the new name and the Person the name of write time
C30_OneParentStale ==
  /\ last.op \in {"put", "post"} /\ last.status = "ok" /\ last.storeName = "Location"
  /\ embeddings(linkMap, "Location") = {<<"Site", "place">>, <<"Person", "location">>}
  /\ \E row \in embeddingRows(idb.stores, "Site", "place", Str(<<"/api/locations/1">>)) :
       cleanNested(Prop(row, "place")) = Loc1b
  /\ \E row \in embeddingRows(idb.stores, "Person", "location", Str(<<"/api/locations/1">>)) :
       cleanNested(Prop(row, "location")) = Loc1

\* C30: reached: the Location is deleted; the cascade has pruned the Person
\* and the owner of the Company, and the office of the Company still embeds
\* the Location
C30_OfficeKept ==
  /\ last.op = "delete" /\ last.status = "ok" /\ last.storeName = "Location"
  /\ MapHas(optionsMap, "Company") /\ MapGet(optionsMap, "Company").cascade = "DELETE"
  /\ embeddingRows(idb.stores, "Person", "location", Str(<<"/api/locations/1">>)) = {}
  /\ embeddingRows(idb.stores, "Company", "office", Str(<<"/api/locations/1">>)) # {}

-----------------------------------------------------------------------------
(* The cascade over two levels: Company embeds Person under owner, Person   *)
(* embeds Location under location.                                          *)

\* the chain is registered and its three stores exist
chainRegistered ==
  /\ <<"Company", "owner", "Person">> \in SeqToSet(linkTriples(linkMap))
  /\ <<"Person", "location", "Location">> \in SeqToSet(linkTriples(linkMap))
  /\ {"Company", "Person", "Location"} \subseteq objectStoreNames(idb.stores)
  /\ MapHas(optionsMap, "Company") /\ MapHas(optionsMap, "Person")

\* two items agree on the property: both lack it or both hold one value
agreeOn(a, b, property) ==
  /\ HasOwn(a, property) <=> HasOwn(b, property)
  /\ HasOwn(a, property) => a.o[property] = b.o[property]

\* every copy of a Person that a row of Company embeds under owner agrees
\* with the stored row of that Person on location
chainAgrees(stores) ==
  \A key \in DOMAIN stores["Company"].rows :
    LET owner == Prop(stores["Company"].rows[key], "owner")
    IN (owner.k = "obj" /\ Prop(owner, idKey) \in DOMAIN stores["Person"].rows)
         => agreeOn(owner, stores["Person"].rows[Prop(owner, idKey)], "location")

\* the row after the step is the row before it with the cascade policy of
\* its store applied at the path
cascadeApplied(storeName, key, path) ==
  /\ key \in DOMAIN idb'.stores[storeName].rows
  /\ idb'.stores[storeName].rows[key] =
       traverseItemPath(idb.stores[storeName].rows[key], path,
                        IF MapGet(optionsMap, storeName).cascade = "none" THEN "KEEP"
                        ELSE MapGet(optionsMap, storeName).cascade)

\* C31: the cascade over two levels.  Where Company embeds Person under owner
\* and Person embeds Location under location, and every copy of a Person in
\* Company agrees with the row of that Person on location, a delete of rows
\* of Location that names a stored row answers; every row of Person that
\* embedded a key given has the cascade applied at location, every row of
\* Company whose copy of a Person embedded a key given has the cascade
\* applied at owner.location, and afterwards every copy of a Person in
\* Company still agrees with the row of that Person on location.
C31_MultiLevelCascade ==
  [][(chainRegistered /\ deletesLocation /\ chainAgrees(idb.stores)) =>
       /\ last'.status = "ok"
       /\ \A i \in 1..Len(last'.input) :
            /\ \A key \in DOMAIN idb.stores["Person"].rows :
                 embeds(idb.stores["Person"].rows[key], "location",
                        extractUuid(last'.input[i]))
                   => cascadeApplied("Person", key, <<"location">>)
            /\ \A key \in DOMAIN idb.stores["Company"].rows :
                 (/\ Prop(idb.stores["Company"].rows[key], "owner").k = "obj"
                  /\ embeds(Prop(idb.stores["Company"].rows[key], "owner"), "location",
                            extractUuid(last'.input[i])))
                   => cascadeApplied("Company", key, <<"owner", "location">>)
       /\ chainAgrees(idb'.stores)]_vars

\* C31: the divergence reached: Person is registered with cascade DELETE
\* under a Company that declares no cascade; the delete of the Location
\* answered with a record for Person and one for Company, the row of the
\* Person has no location, and the copy of that Person in the row of the
\* Company still embeds the Location deleted
C31_CopiesDisagree ==
  /\ last.op = "delete" /\ last.storeName = "Location" /\ last.status = "ok"
  /\ chainRegistered
  /\ MapGet(optionsMap, "Person").cascade = "DELETE"
  /\ MapGet(optionsMap, "Company").cascade = "none"
  /\ [i \in 1..Len(last.value) |-> last.value[i].storeName] = <<"Person", "Company">>
  /\ \E key \in DOMAIN idb.stores["Company"].rows :
       LET owner == Prop(idb.stores["Company"].rows[key], "owner")
       IN /\ owner.k = "obj" /\ Prop(owner, idKey) \in DOMAIN idb.stores["Person"].rows
          /\ ~HasOwn(idb.stores["Person"].rows[Prop(owner, idKey)], "location")
          /\ embeds(owner, "location", extractUuid(last.input[1]))
          /\ extractUuid(last.input[1]) \notin DOMAIN idb.stores["Location"].rows

\* the identities the step gives
keysGiven == {extractUuid(last'.input[i]) : i \in 1..Len(last'.input)}

\* the elements of the array under the property of the row
elements(row, property) ==
  IF HasOwn(row, property) /\ IsArray(row.o[property]) THEN row.o[property].a ELSE E

\* some record of the answer names the row of the store
reported(answer, storeName, key) ==
  \E i \in 1..Len(answer) :
    /\ answer[i].storeName = storeName
    /\ key \in SeqToSet(answer[i].primaryKeys)

\* C32: the cascade inside arrays.  Where a row of a store embeds, under a
\* linked property, an array of entities of which some has a key given to a
\* delete of rows of the linked store, the delete answers, the row is
\* reported as affected, its stored array holds no entity of a key given as
\* it was, and the elements of other identities are in it as they were.
C32_ArrayCascade ==
  [][\A t \in SeqToSet(linkTriples(linkMap)) :
       (/\ last'.op = "delete" /\ last'.storeName = t[3]
        /\ t[1] \in objectStoreNames(idb.stores) /\ MapHas(optionsMap, t[1])) =>
         \A key \in DOMAIN idb.stores[t[1]].rows :
           LET before == elements(idb.stores[t[1]].rows[key], t[2])
           IN (\E n \in 1..Len(before) : Prop(before[n], idKey) \in keysGiven) =>
                /\ last'.status = "ok"
                /\ reported(last'.value, t[1], key)
                /\ key \in DOMAIN idb'.stores[t[1]].rows
                /\ LET after == elements(idb'.stores[t[1]].rows[key], t[2])
                   IN \A n \in 1..Len(before) :
                        IF Prop(before[n], idKey) \in keysGiven
                        THEN \A m \in 1..Len(after) : after[m] # before[n]
                        ELSE \E m \in 1..Len(after) : after[m] = before[n]]_vars

\* C32: the divergence reached: Person, embedded by Company, holds a row with
\* an array of Locations under location; the delete of one of them did not
\* fault, the Location is gone from its store, and the array still holds
\* the entity deleted, with no record naming the row
C32_ArrayUntouched ==
  /\ last.op = "delete" /\ last.storeName = "Location" /\ last.status # "fault"
  /\ hasAncestor("Person") /\ "Person" \in objectStoreNames(idb.stores)
  /\ extractUuid(last.input[1]) \notin DOMAIN idb.stores["Location"].rows
  /\ \E key \in DOMAIN idb.stores["Person"].rows :
       /\ \E n \in 1..Len(elements(idb.stores["Person"].rows[key], "location")) :
            Prop(elements(idb.stores["Person"].rows[key], "location")[n], idKey)
              = extractUuid(last.input[1])
       /\ ~reported(last.value, "Person", key)

\* the value is, or holds at some depth, an entity whose generated key is
\* one of the keys
RECURSIVE holdsIdentity(_, _)
holdsIdentity(value, keys) ==
  \/ value.k = "obj" /\ HasOwn(value, idKey) /\ value.o[idKey] \in keys
  \/ value.k = "obj" /\ \E p \in DOMAIN value.o : holdsIdentity(value.o[p], keys)
  \/ value.k = "arr" /\ \E n \in 1..Len(value.a) : holdsIdentity(value.a[n], keys)

\* the stores that embed the store, directly or through a store between
ancestorsOf(storeName) == {p[1] : p \in embeddingPaths(linkMap, storeName)}

\* the step is a delete of rows of a store that exists
deletesRows == last'.op = "delete" /\ last'.storeName \in objectStoreNames(idb.stores)

\* C33: the frame of a delete of rows.  The store named loses exactly the
\* rows of the keys given and keeps every other row as it was; every store
\* that is no ancestor of it keeps its rows; and every row of an ancestor
\* that holds none of the identities deleted stays as it was and is named by
\* no record of the answer.
C33_DeleteFrame ==
  [][deletesRows =>
       /\ objectStoreNames(idb'.stores) = objectStoreNames(idb.stores)
       /\ DOMAIN idb'.stores[last'.storeName].rows
            = DOMAIN idb.stores[last'.storeName].rows \ keysGiven
       /\ \A key \in DOMAIN idb'.stores[last'.storeName].rows :
            idb'.stores[last'.storeName].rows[key] = idb.stores[last'.storeName].rows[key]
       /\ \A n \in objectStoreNames(idb.stores) \ ({last'.storeName} \cup ancestorsOf(last'.storeName)) :
            idb'.stores[n] = idb.stores[n]
       /\ \A n \in objectStoreNames(idb.stores) \cap ancestorsOf(last'.storeName) :
            \A key \in DOMAIN idb.stores[n].rows :
              ~holdsIdentity(idb.stores[n].rows[key], keysGiven)
                => /\ key \in DOMAIN idb'.stores[n].rows
                   /\ idb'.stores[n].rows[key] = idb.stores[n].rows[key]
                   /\ ~reported(last'.value, n, key)]_vars

\* C33: the case reached: a delete of one Location answered; Location keeps
\* another row, and of the rows of Person, an ancestor, one embedded the
\* Location deleted and is reported while another holds none of the
\* identities given, is not reported and is stored as before
C33_OtherRowsKept ==
  /\ last.op = "delete" /\ last.storeName = "Location" /\ last.status = "ok"
  /\ "Person" \in ancestorsOf("Location") /\ "Person" \in objectStoreNames(idb.stores)
  /\ DOMAIN idb.stores["Location"].rows # {}
  /\ extractUuid(last.input[1]) \notin DOMAIN idb.stores["Location"].rows
  /\ \E kept, pruned \in DOMAIN idb.stores["Person"].rows :
       /\ reported(last.value, "Person", pruned)
       /\ ~reported(last.value, "Person", kept)
       /\ embeds(idb.stores["Person"].rows[kept], "location",
                 CHOOSE id \in DOMAIN idb.stores["Location"].rows : TRUE)

-----------------------------------------------------------------------------
(* What persist, post and put leave of the rows stored before them *)

\* the generated keys of the content under the primary key of the options
keysOfContent(content, primaryKey) ==
  {extractUuid(Prop(content[i], primaryKey)) : i \in 1..Len(content)}

\* every row the store held before the step is a key of the store after it
rowsRetained(storeName) ==
  /\ storeName \in objectStoreNames(idb'.stores)
  /\ DOMAIN idb.stores[storeName].rows \subseteq DOMAIN idb'.stores[storeName].rows

\* the step is a persist that answered, into a store that exists and is
\* registered with the primary key
persistsInto(storeName, primaryKey) ==
  /\ last'.op = "persist" /\ last'.status = "ok" /\ last'.storeName = storeName
  /\ storeName \in objectStoreNames(idb.stores)
  /\ MapHas(optionsMap', storeName)
  /\ MapGet(optionsMap', storeName).primaryKey = primaryKey

\* C35: persist overwrites the store it names.  After a persist into a store
\* that exists answered, the store holds the rows of the content of that
\* call and no other (none where the call asks for the structure alone),
\* and every other store that existed keeps every row it held, also where
\* the call wrote to it as a linked child; and a post or a put removes no row
\* of any store.
C35_PersistOverwrites ==
  [][/\ \A n \in {"Location", "Person", "Company"} : \A pk \in {"@id", "id"} :
          persistsInto(n, pk) =>
            /\ DOMAIN idb'.stores[n].rows
                 = IF MapGet(optionsMap', n).storeContent = "false" THEN {}
                   ELSE keysOfContent(last'.input, pk)
            /\ \A other \in objectStoreNames(idb.stores) \ {n} : rowsRetained(other)
     /\ (last'.op \in {"post", "put"} /\ calls' = calls + 1) =>
          \A n \in objectStoreNames(idb.stores) : rowsRetained(n)]_vars

\* C35, where the store declares no unique key: the rows of the call are the
\* rows of the store, and the other stores keep theirs
C35_OverwritesWithoutUniqueKeys ==
  [][\A n \in {"Location", "Person", "Company"} : \A pk \in {"@id", "id"} :
       (persistsInto(n, pk) /\ MapGet(optionsMap', n).uniqueKeys = {}) =>
         /\ DOMAIN idb'.stores[n].rows
              = IF MapGet(optionsMap', n).storeContent = "false" THEN {}
                ELSE keysOfContent(last'.input, pk)
         /\ \A other \in objectStoreNames(idb.stores) \ {n} : rowsRetained(other)]_vars

\* C35: the divergence reached: a persist of three Locations into the store
\* that exists, registered with the unique key name, answered; the store was
\* recreated and holds two of the three rows, the one whose name another row
\* of the call has being left out
C35_RowOfCallMissing ==
  /\ last.op = "persist" /\ last.status = "ok" /\ last.storeName = "Location"
  /\ calls > 1 /\ Len(last.input) = 3
  /\ MapGet(optionsMap, "Location").uniqueKeys = {"name"}
  /\ Cardinality(keysOfContent(last.input, "@id")) = 3
  /\ Cardinality(DOMAIN idb.stores["Location"].rows) = 2
  /\ DOMAIN idb.stores["Location"].rows \subseteq keysOfContent(last.input, "@id")

\* the identities of the entities of an array, in its order
embeddedIdentities(array) == [n \in 1..Len(array) |-> Prop(array[n], idKey)]

\* the identities an answered array holds: the answer carries no generated
\* key, so an entity is known by the primary key of its store
answeredIdentities(array, primaryKey) ==
  [n \in 1..Len(array) |-> extractUuid(Prop(array[n], primaryKey))]

\* C40: linked arrays keep their length.  Where the row a get by key reads
\* holds, under a linked property, an array of N linked entities, the answer
\* holds under that property an array of N entities, one for each embedded
\* identity, in the stored order.
C40_ArrayLengthKept ==
  (last.op = "get" /\ last.status = "ok") =>
    \A i \in 1..Len(MapGetOr(linkMap, last.storeName, E)) :
      LET p == MapGet(linkMap, last.storeName)[i][1]
          D == MapGet(linkMap, last.storeName)[i][2]
          embedded == Prop(rowRead(idb.stores, last.storeName, last.input), p)
      IN (IsArray(embedded) /\ MapHas(optionsMap, D)) =>
           /\ IsArray(Prop(last.value, p))
           /\ answeredIdentities(Prop(last.value, p).a, MapGet(optionsMap, D).primaryKey)
                = embeddedIdentities(embedded.a)

\* C40: the divergence reached: the row of the Person holds the Locations of
\* two identities, and the answer holds each identity twice, the pair of
\* the row followed by the same pair again
C40_EachIdentityTwice ==
  /\ last.op = "get" /\ last.status = "ok" /\ last.storeName = "Person"
  /\ MapHas(optionsMap, "Location")
  /\ LET embedded == Prop(rowRead(idb.stores, "Person", last.input), "location")
     IN /\ IsArray(embedded) /\ Len(embedded.a) = 2
        /\ embeddedIdentities(embedded.a)[1] # embeddedIdentities(embedded.a)[2]
        /\ IsArray(Prop(last.value, "location"))
        /\ answeredIdentities(Prop(last.value, "location").a,
                              MapGet(optionsMap, "Location").primaryKey)
             = embeddedIdentities(embedded.a) \o embeddedIdentities(embedded.a)

\* the call is a get by key of a store that is registered and exists
getOfStore ==
  /\ last.op = "get" /\ MapHas(optionsMap, last.storeName)
  /\ last.storeName \in objectStoreNames(idb.stores)

\* C38: a missing key on a read.  A get by key of a store that is registered
\* and exists answers, without a fault: undefined where the store holds no
\* row of the key, and the entity of the row where it holds one, also where
\* a row that the entity embeds was deleted from its own store.
C38_MissingKeyRead ==
  getOfStore =>
    /\ last.status = "ok"
    /\ IF last.input \in DOMAIN idb.stores[last.storeName].rows
       THEN /\ last.value.k = "obj"
            /\ extractUuid(Prop(last.value, MapGet(optionsMap, last.storeName).primaryKey))
                 = last.input
       ELSE last.value = Undef

\* C38: the divergence reached: the store holds rows, none of the key asked
\* for, and the get delivered neither a value nor a fault
C38_MissingKeyNeverAnswers ==
  /\ getOfStore
  /\ DOMAIN idb.stores[last.storeName].rows # {}
  /\ last.input \notin DOMAIN idb.stores[last.storeName].rows
  /\ last.status = "hang"

\* C38: also reached: the row of the Person is stored and embeds a Location
\* that was deleted from its store (the stores were made by one persist, so
\* a delete took the row), Person declares no cascade, and the get of the
\* Person delivered neither a value nor a fault
C38_ParentNeverAnswers ==
  /\ getOfStore /\ last.storeName = "Person"
  /\ idb.version = 1 /\ calls = 3
  /\ MapGet(optionsMap, "Person").cascade = "none"
  /\ last.input \in DOMAIN idb.stores["Person"].rows
  /\ "Location" \in objectStoreNames(idb.stores)
  /\ LET embedded == Prop(idb.stores["Person"].rows[last.input], "location")
     IN /\ embedded.k = "obj"
        /\ Prop(embedded, idKey) \notin DOMAIN idb.stores["Location"].rows
  /\ last.status = "hang"

-----------------------------------------------------------------------------
(* The calls that write or delete, with the inputs at the edge: no content, *)
(* no key, a key given twice, a last row that the engine rejects, and a     *)
(* delete of a key that no row of an ancestor embeds.                       *)

AnswerPersistInputs ==
  {[options |-> LocationOptions, content |-> c] : c \in {E, <<Loc1>>, <<LocU>>}}
  \cup {[options |-> LocationUnique, content |-> c] : c \in {<<Loc1, LocT>>, <<LocT, LocU>>}}
  \cup {[options |-> LocationStructure, content |-> E]}
  \cup {[options |-> CompanyOptions("none", c), content |-> <<Com1>>] : c \in {"none", "DELETE"}}

AnswerPostInputs ==
  {[storeName |-> "Location", content |-> c] : c \in {E, <<LocT>>, <<LocU, LocT>>}}

AnswerPutInputs ==
  {[storeName |-> "Location", content |-> c] : c \in {E, <<Loc1b>>}}

AnswerDeleteInputs ==
  {[storeName |-> "Location", primaryKeys |-> k] :
     k \in {E, <<Str(<<"/api/locations/1">>)>>,
            <<Str(<<"/api/locations/1">>), Str(<<"/api/locations/1">>)>>,
            <<Str(<<"/api/locations/", U2>>)>>}}

NextAnswer ==
  \/ \E i \in AnswerPersistInputs : Persist(i.content, i.options)
  \/ \E i \in AnswerPostInputs : Post(i.storeName, i.content)
  \/ \E i \in AnswerPutInputs : Put(i.storeName, i.content)
  \/ \E i \in AnswerDeleteInputs : Delete(i.storeName, i.primaryKeys)

SpecAnswer == Init /\ [][NextAnswer]_vars

\* C37: every call that writes or deletes answers.  A persist, a post, a put
\* or a delete of rows delivers a result or a fault to its caller, whatever
\* its input: no call is left without an answer.
C37_EveryCallAnswers ==
  (last.op \in {"persist", "post", "put", "delete"}) => last.status \in {"ok", "fault"}

\* the call named a store that is registered and exists
onStoredLocation ==
  /\ last.storeName = "Location" /\ MapHas(optionsMap, "Location")
  /\ "Location" \in objectStoreNames(idb.stores)

\* C37: the divergences reached, of which the first is the witness: a
\* persist with no content that is to be stored never answers;
C37_EmptyPersistNeverAnswers ==
  /\ last.op = "persist" /\ last.input = E /\ last.status = "hang"
  /\ MapGet(optionsMap, last.storeName).storeContent # "false"

\* a post and a put with no content never answer;
C37_EmptyWriteNeverAnswers ==
  /\ last.op \in {"post", "put"} /\ last.input = E /\ last.status = "hang"
  /\ onStoredLocation

\* a delete with no key never answers;
C37_NoKeyNeverAnswers ==
  last.op = "delete" /\ last.input = E /\ last.status = "hang" /\ onStoredLocation

\* a delete with one key given twice removes the row and never answers;
C37_DuplicateKeyNeverAnswers ==
  /\ last.op = "delete" /\ Len(last.input) = 2 /\ last.input[1] = last.input[2]
  /\ last.status = "hang" /\ onStoredLocation
  /\ extractUuid(last.input[1]) \notin DOMAIN idb.stores["Location"].rows

\* a write whose last row the unique index rejects never answers;
C37_RejectedLastNeverAnswers ==
  /\ last.op \in {"persist", "post"} /\ last.status = "hang" /\ onStoredLocation
  /\ Len(last.input) = 2
  /\ "name" \in MapGet(optionsMap, "Location").uniqueKeys
  /\ extractUuid(Prop(last.input[2], "@id")) \notin DOMAIN idb.stores["Location"].rows
  /\ extractUuid(Prop(last.input[1], "@id")) \in DOMAIN idb.stores["Location"].rows

\* and a delete of a key that no row of Person, an ancestor with an ancestor,
\* embeds never answers
C37_NoEmbeddingRowNeverAnswers ==
  /\ last.op = "delete" /\ Len(last.input) = 1 /\ last.status = "hang" /\ onStoredLocation
  /\ chainRegistered
  /\ \A key \in DOMAIN idb.stores["Person"].rows :
       ~holdsIdentity(idb.stores["Person"].rows[key], {extractUuid(last.input[1])})

-----------------------------------------------------------------------------
(* The connection, request by request.  persist and deleteObjectStore       *)
(* update the registry and make their open request in one synchronous run;  *)
(* the engine settles the open requests later, in the order they were made. *)
(* In this specification idb also holds the connections that are open and   *)
(* the open requests that wait, handle is the connection that indexedDb$    *)
(* holds (0 for undefined), local also holds the list of the setItem calls  *)
(* made, and last is the list of the calls made, the last one last: for     *)
(* each its status ("waiting" for the handle, "pending" on its open         *)
(* request, "ok", "fault", or "hang" when it can deliver nothing more), the *)
(* number of times its writes ran, and whether its caller stays subscribed  *)
(* after the first answer.  The callers of persist and deleteObjectStore    *)
(* take the first answer.                                                   *)

OpenPersistInputs ==
  {[options |-> LocationOptions, content |-> <<Loc1>>],
   [options |-> PersonOptions("none", E), content |-> <<Per1>>],
   [options |-> Options("Company", "id", "none", "undef", E, E), content |-> <<Com1>>]}
OpenDropInputs == {[storeName |-> "Location", type |-> t] : t \in {"KEEP", "DELETE"}}
OpenPostInputs == {[storeName |-> "Location", content |-> <<LocT>>]}
OpenPutInputs == {[storeName |-> "Location", content |-> <<Loc1b>>]}
OpenDeleteInputs ==
  {[storeName |-> "Location", primaryKeys |-> <<Str(<<"/api/locations/1">>)>>]}

\* a call as last holds it
Call(op, storeName, input, status) ==
  [op |-> op, storeName |-> storeName, input |-> input, options |-> LocationOptions,
   indexMap |-> E, type |-> "none", stays |-> FALSE, status |-> status, runs |-> 0,
   value |-> E]

\* local.setItem(settingsKey, ...) and local.setItem(storageKey, ...) as the
\* list of local holds them: the call they were made for and, of the
\* settings, the version and the mutations written
settingsWrite(call, R) ==
  [call |-> call, key |-> "settings", version |-> R.local.settings[1].version,
   mutations |-> R.local.settings[1].mutations]
storageWrite(call) ==
  [call |-> call, key |-> "storage", version |-> 0,
   mutations |-> [update |-> E, remove |-> E, indices |-> E]]

\* the registry is R, the setItem calls made are added to the list
SetRegistryWritten(R, writes) == SetRegistry([R EXCEPT !.local.writes = @ \o writes])

InitOpen ==
  /\ settings = [version |-> 0, options |-> E, links |-> E,
                 mutations |-> [update |-> E, remove |-> E, indices |-> E],
                 triggers |-> E]
  /\ optionsMap = E
  /\ linkMap = E
  /\ triggerMap = E
  /\ storageMap = E
  /\ counterMap = E
  /\ local = [settings |-> E, storage |-> E, writes |-> E]
  /\ idb = [version |-> 0, stores |-> NoStores, connections |-> {}, requests |-> E]
  /\ handle = 0
  /\ last = E
  /\ calls = 0

\* openDatabaseRequest: active?.close(), then indexedDB.open at the version
\* of the settings; the request is given the number of the call
openDatabaseRequest(db, active, call, version) ==
  [db EXCEPT !.connections = @ \ {active},
             !.requests = Append(@, [call |-> call, version |-> version])]

\* persist, up to the open request: updatePersistenceSettings writes the
\* settings, updateStorageSettings the storage map
PersistCalled(content, options) ==
  /\ calls < MaxCalls
  /\ LET updated == updatePersistenceSettings(Registry, options)
         linkedItems == parseContentForLinking(updated, options.storeName, content, E)
         stored == updateStorageSettings(updated, linkedItems)
     IN /\ SetRegistryWritten(stored, <<settingsWrite(calls + 1, updated),
                                        storageWrite(calls + 1)>>)
        /\ idb' = openDatabaseRequest(idb, handle, calls + 1, stored.settings.version)
        /\ last' = Append(last,
                     [Call("persist", options.storeName, linkedItems, "pending")
                        EXCEPT !.options = options,
                               !.indexMap = storeIndexMap(updated, linkedItems)])
  /\ calls' = calls + 1
  /\ UNCHANGED <<counterMap, handle>>

\* deleteObjectStore, up to the open request: prunePersistenceSettings
\* writes the storage map and then the settings
DropCalled(storeName, type) ==
  /\ calls < MaxCalls
  /\ LET deleteMap == createParentDeleteMap(Registry, storeName)
         pruned == prunePersistenceSettings(Registry, storeName, deleteMap)
     IN /\ SetRegistryWritten(pruned, <<storageWrite(calls + 1),
                                        settingsWrite(calls + 1, pruned)>>)
        /\ idb' = openDatabaseRequest(idb, handle, calls + 1, pruned.settings.version)
        /\ last' = Append(last, [Call("deleteObjectStore", storeName, deleteMap, "pending")
                                   EXCEPT !.type = type])
  /\ calls' = calls + 1
  /\ UNCHANGED <<counterMap, handle>>

\* what a post, a put or a delete of rows makes of the stores with the handle
\* it is given, as [stores, status]
runOnce(R, stores, call) ==
  IF call.op = "post"
  THEN [stores |-> post(R, stores, call.storeName, call.input).stores,
        status |-> post(R, stores, call.storeName, call.input).status]
  ELSE IF call.op = "put"
  THEN [stores |-> put(R, stores, call.storeName, call.input).stores,
        status |-> put(R, stores, call.storeName, call.input).status]
  ELSE IF call.op = "delete"
  THEN [stores |-> delete(R, stores, call.storeName, call.input).value.stores,
        status |-> delete(R, stores, call.storeName, call.input).status]
  ELSE [stores |-> checkAndPruneParents(R, stores, call.input, E, E).value.stores,
        status |-> checkAndPruneParents(R, stores, call.input, E, E).status]

\* the pipeline of the call is subscribed to database$: the call waits for a
\* handle, or it answered and its caller stays subscribed, or it delivered
\* nothing, so that its caller still waits
subscribed(call) ==
  \/ call.op \in {"post", "put", "delete"}
       /\ (call.status \in {"waiting", "hang"} \/ (call.status = "ok" /\ call.stays))
  \/ call.op = "deleteObjectStore" /\ call.type # "KEEP" /\ call.status = "hang"

\* indexedDb$.next(database): switchMap runs the pipeline of every call that
\* is subscribed again, in the order of the subscriptions
RECURSIVE runSubscribed(_, _, _, _)
runSubscribed(R, stores, callList, i) ==
  IF i > Len(callList) THEN [stores |-> stores, calls |-> callList]
  ELSE IF ~subscribed(callList[i]) THEN runSubscribed(R, stores, callList, i + 1)
  ELSE runSubscribed(R, runOnce(R, stores, callList[i]).stores,
                     [callList EXCEPT ![i].status = runOnce(R, stores, callList[i]).status,
                                      ![i].runs = @ + 1],
                     i + 1)

\* subscriber.next of initializeDatabase: what the call that made the request
\* goes on to do, as [db, status, value]
afterOpen(R, db, call) ==
  IF call.op = "persist"
  THEN persistOpened([R |-> R, db |-> db], call.input, call.options,
                     createPersistenceResultsMap(call.input, call.indexMap,
                                                 call.options.storeContent))
  ELSE droppedStore([R |-> R, db |-> db], call.storeName, call.type, call.input)

\* the setItem calls of createOrUpdateObjectStores: handleObjectStoreRemovals
\* sets the storage map where a removal is pending, and the settings are
\* set at the end
upgradeWrites(R, after, call) ==
  (IF R.settings.mutations.remove # E THEN <<storageWrite(call)>> ELSE E)
    \o <<settingsWrite(call, after)>>

\* onupgradeneeded of a request: the database takes the version the request
\* was made with, and the stores are made from the registry as it is now
upgradeNeeded(R, db, request) ==
  IF request.version > db.version
  THEN upgraded(createOrUpdateObjectStores([R |-> R, stores |-> db.stores]), request.version)
  ELSE [R |-> R, db |-> [version |-> db.version, stores |-> db.stores]]

\* the engine can grant the oldest open request that waits: its version is
\* not below the database's, and where it is above it, no connection is open
settleable ==
  /\ idb.requests # E
  /\ Head(idb.requests).version >= idb.version
  /\ Head(idb.requests).version > idb.version => idb.connections = {}

\* the engine settles the first open request that waits.  A request of a
\* higher version than the database waits until no connection is open; it
\* then runs the upgrade.  Its success sets the handle, which runs the
\* pipelines subscribed to it, and lets the call of the request go on
OpenSucceeds ==
  /\ settleable
  /\ \E request \in {Head(idb.requests)} :
     \E opened \in {upgradeNeeded(Registry, idb, request)} :
     \E ran \in {runSubscribed(opened.R, opened.db.stores, last, 1)} :
     \E done \in {afterOpen(opened.R,
                            [version |-> opened.db.version, stores |-> ran.stores],
                            ran.calls[request.call])} :
       /\ SetRegistryWritten(done.R,
            IF request.version > idb.version
            THEN upgradeWrites(Registry, opened.R, request.call) ELSE E)
       /\ idb' = [version |-> done.db.version, stores |-> done.db.stores,
                  connections |-> idb.connections \cup {request.call},
                  requests |-> Tail(idb.requests)]
       /\ handle' = request.call
       /\ last' = [ran.calls EXCEPT ![request.call].status = done.status,
                                    ![request.call].value = done.value]
  /\ UNCHANGED <<counterMap, calls>>

\* post, put and delete subscribe to database$: with no handle yet the call
\* waits; with a handle that was closed for a request that waits,
\* database.transaction throws; else the call runs
Subscribes(op, storeName, input, stays) ==
  /\ calls < MaxCalls
  /\ LET call == [Call(op, storeName, input, "waiting") EXCEPT !.stays = stays]
         ran == runOnce(Registry, idb.stores, call)
     IN IF handle = 0
        THEN /\ last' = Append(last, call)
             /\ idb' = idb
        ELSE IF handle \notin idb.connections
        THEN /\ last' = Append(last, [call EXCEPT !.status = "fault"])
             /\ idb' = idb
        ELSE /\ last' = Append(last, [call EXCEPT !.status = ran.status, !.runs = 1])
             /\ idb' = [idb EXCEPT !.stores = ran.stores]
  /\ calls' = calls + 1
  /\ UNCHANGED <<settings, optionsMap, linkMap, triggerMap, storageMap, counterMap,
                 local, handle>>

PostCalled(storeName, content, stays) == Subscribes("post", storeName, content, stays)
PutCalled(storeName, content, stays) == Subscribes("put", storeName, content, stays)
DeleteCalled(storeName, primaryKeys, stays) ==
  Subscribes("delete", storeName, primaryKeys, stays)

NextOpen ==
  \/ \E i \in OpenPersistInputs : PersistCalled(i.content, i.options)
  \/ \E i \in OpenDropInputs : DropCalled(i.storeName, i.type)
  \/ \E i \in OpenPostInputs : \E stays \in BOOLEAN : PostCalled(i.storeName, i.content, stays)
  \/ \E i \in OpenPutInputs : \E stays \in BOOLEAN : PutCalled(i.storeName, i.content, stays)
  \/ \E i \in OpenDeleteInputs : \E stays \in BOOLEAN :
       DeleteCalled(i.storeName, i.primaryKeys, stays)
  \/ OpenSucceeds

SpecOpen == InitOpen /\ [][NextOpen]_vars

\* the state holds a record for every call made
OpenTypeOK == Len(last) = calls /\ Cardinality(idb.connections) <= calls

\* the open request of the call waits
requestWaits(call) == \E i \in 1..Len(idb.requests) : idb.requests[i].call = call

\* C36: at most one connection is open at any moment
C36_AtMostOneOpen == Cardinality(idb.connections) <= 1

\* C36: when an open request is made no connection is open any more: the one
\* that was open was closed first
C36_ClosedBeforeRequest ==
  [][Len(idb'.requests) > Len(idb.requests) => idb'.connections = {}]_vars

\* C36: a single handle, closed before a reopen, and no open request left
\* waiting for good.  At every moment at most one connection to the database
\* is open, and whenever an open request of persist or deleteObjectStore waits,
\* the engine can grant the oldest one, so that every request succeeds in the
\* end, also where two of them are made without the first being awaited.  The
\* only step that closes a connection is a further call of the caller, so a
\* request the engine cannot grant waits for as long as the caller makes none.
C36_SingleHandle ==
  /\ C36_AtMostOneOpen
  /\ idb.requests # E => settleable

\* C36: the divergence reached: two persists were called one after the other
\* with no answer awaited; the open request of the first succeeded and its
\* connection is the one open, which no one closes, and the open request of
\* the second, of a higher version, waits for it to be closed
C36_SecondRequestBlocked ==
  /\ Len(last) >= 2
  /\ last[1].op = "persist" /\ last[1].status = "ok"
  /\ last[2].op = "persist" /\ last[2].status = "pending"
  /\ idb.connections = {1} /\ handle = 1
  /\ requestWaits(2) /\ Head(idb.requests).call = 2
  /\ Head(idb.requests).version > idb.version

\* the setItem calls made for the call, in the order they were made
writesOf(call) == SelectSeq(local.writes, LAMBDA w : w.call = call)

\* the three lists of pending mutations are empty
noMutations(mutations) ==
  mutations.update = E /\ mutations.remove = E /\ mutations.indices = E

\* the version written is above every version written before the setItem call
\* at the position
versionBumped(position) ==
  \A earlier \in 1..(position - 1) :
    local.writes[earlier].key = "settings"
      => local.writes[earlier].version < local.writes[position].version

\* the position in the list of the first setItem call made for the call
firstWrite(call) ==
  CHOOSE position \in 1..Len(local.writes) :
    /\ local.writes[position].call = call
    /\ \A earlier \in 1..(position - 1) : local.writes[earlier].call # call

\* the call is a persist or a deleteObjectStore that gets its answer in the step
completes(call) ==
  /\ call <= Len(last) /\ last[call].op \in {"persist", "deleteObjectStore"}
  /\ last[call].status = "pending" /\ last'[call].status = "ok"

\* the position in the list of the last setItem call made for the call
lastWrite(call) ==
  CHOOSE position \in 1..Len(local.writes) :
    /\ local.writes[position].call = call
    /\ \A later \in (position + 1)..Len(local.writes) : local.writes[later].call # call

\* no setItem call of another call was made between those of the call: no
\* other persist or deleteObjectStore was called before the call answered
alone(call) ==
  \A position \in firstWrite(call)..lastWrite(call) : local.writes[position].call = call

\* the three setItem calls of a persist: the settings with its store among
\* mutations.update at a version above all written before, the storage map,
\* and the settings with the three mutation lists empty, in this order and
\* no other
threeWrites(call) ==
  /\ Len(writesOf(call)) = 3
  /\ writesOf(call)[1].key = "settings"
  /\ \E i \in 1..Len(writesOf(call)[1].mutations.update) :
       writesOf(call)[1].mutations.update[i] = last[call].storeName
  /\ versionBumped(firstWrite(call))
  /\ writesOf(call)[2].key = "storage"
  /\ writesOf(call)[3].key = "settings"
  /\ noMutations(writesOf(call)[3].mutations)

\* C34: every persist that answered made the three setItem calls
C34_ThreeWrites ==
  \A call \in 1..Len(last) :
    last[call].op = "persist" /\ last[call].status = "ok" => threeWrites(call)

\* C34: every persist that answered with no other persist or
\* deleteObjectStore called meanwhile made the three setItem calls
C34_ThreeWritesAlone ==
  \A call \in 1..Len(last) :
    last[call].op = "persist" /\ last[call].status = "ok" /\ alone(call)
      => threeWrites(call)

\* C34: when a persist or a deleteObjectStore answers, no mutation is pending
\* in the settings in memory nor in the settings in localStorage
C34_NoneLeftPending ==
  [][\A call \in 1..MaxCalls :
       completes(call)
         => noMutations(settings'.mutations)
            /\ noMutations(local'.settings[1].mutations)]_vars

C34_FourWrites ==
  \E call \in 1..Len(last) :
    /\ last[call].op = "persist" /\ last[call].status = "ok"
    /\ Len(writesOf(call)) = 4
    /\ writesOf(call)[3].key = "storage"
    /\ \E drop \in (call + 1)..Len(last) : last[drop].op = "deleteObjectStore"

\* C39: the writes of one call of post, put or delete run at most once
C39_AtMostOnce ==
  \A call \in 1..Len(last) :
    last[call].op \in {"post", "put", "delete"} => last[call].runs <= 1

\* C39: the divergence reached: a put answered and its caller stayed
\* subscribed; a persist called later reopened the database, the success of
\* its open request set the handle anew, and the put wrote its rows a second
\* time and answered again
C39_PutRanTwice ==
  \E call \in 1..Len(last) :
    /\ last[call].op = "put" /\ last[call].stays
    /\ last[call].runs = 2 /\ last[call].status = "ok"
    /\ \E later \in (call + 1)..Len(last) :
         last[later].op = "persist" /\ last[later].status = "ok"
=============================================================================
